---- MODULE Spec2Model ----
(***************************************************************************)
(* Energy integration and unit normalisation of the REPACSS power          *)
(* profiling client (src/src/analysis/energy.py, src/src/core/             *)
(* power_utils.py, src/src/utils/conversions.py).                          *)
(*                                                                         *)
(* Number representation (exact, no rounding):                             *)
(*  - an instant is a whole number of ticks; one second is TicksPerSecond  *)
(*    ticks, so timestamps carry a sub-second part;                        *)
(*  - a float holding a power is kept in thousandths (MilliPerWatt), so    *)
(*    that the division by 1000.0 of the mW conversion is exact;           *)
(*  - an energy is kept in energy units, 1 Joule being                     *)
(*    2 * MilliPerWatt * TicksPerSecond units: the product W x s is        *)
(*    WattSeconds and the trapezoid term ((a + b) / 2.0) x dt is           *)
(*    TrapezoidTerm.  The final division by 3 600 000.0 is a change of     *)
(*    unit applied to every returned energy alike; a returned kWh value is *)
(*    held as its number of energy units.                                  *)
(***************************************************************************)
EXTENDS Integers, Sequences, FiniteSets, TLC

\* ---------------------------------------------------------------- bounds
MaxRows == 3
MaxRowsMalformed == 1
MaxTick == 2
TicksPerSecond == 2

\* ------------------------------------------------------------- constants
MilliPerWatt == 1000
NaT == -1
Unparseable == -2
NoTime == -3

\* ----------------------------------------------------- strings and units
\* A string is the sequence of its characters.
S_mW == <<"m", "W">>
S_MW == <<"M", "W">>
S_mw == <<"m", "w">>
S_kW == <<"k", "W">>
S_KW == <<"K", "W">>
S_Kw == <<"K", "w">>
S_W == <<"W">>
S_w == <<"w">>
S_empty == <<>>
S_invalid_unit == <<"i", "n", "v", "a", "l", "i", "d", "_", "u", "n", "i", "t">>
S_Wh == <<"W", "h">>

Str(s) == [isNone |-> FALSE, text |-> s]
NoneUnit == [isNone |-> TRUE, text |-> <<>>]

\* str.lower() on the characters that occur in the unit labels
LowerChar(c) ==
  CASE c = "M" -> "m"
    [] c = "W" -> "w"
    [] c = "K" -> "k"
    [] OTHER -> c

Lower(s) == [i \in DOMAIN s |-> LowerChar(s[i])]

\* `unit.lower() if unit else 'w'`: None and the empty string are falsy
UnitLower(unit) ==
  IF unit.isNone \/ unit.text = <<>> THEN S_w ELSE Lower(unit.text)

\* power_series.astype(float): the float of an integer reading, in thousandths
AsFloat(v) == v * MilliPerWatt

\* a unit-dependent branch that divides also the unknown units
ConvertUnknownAsMilli(power_series, unit) ==
  LET unit_lower == UnitLower(unit)
      series_float == [i \in DOMAIN power_series |-> AsFloat(power_series[i])]
  IN  IF unit_lower = <<"k", "w">>
      THEN [i \in DOMAIN series_float |-> series_float[i] * 1000]
      ELSE IF unit_lower = S_w
      THEN series_float
      ELSE [i \in DOMAIN series_float |-> series_float[i] \div 1000]

\* utils.conversions.convert_power_series_to_watts
ConvertPowerSeriesToWatts(power_series, unit) ==
  LET unit_lower == UnitLower(unit)
      series_float == [i \in DOMAIN power_series |-> AsFloat(power_series[i])]
  IN  IF unit_lower = S_mw
      THEN [i \in DOMAIN series_float |-> series_float[i] \div 1000]
      ELSE IF unit_lower = <<"k", "w">>
      THEN [i \in DOMAIN series_float |-> series_float[i] * 1000]
      ELSE IF unit_lower = S_w
      THEN series_float
      ELSE series_float

\* the comparison made on the unit as given, without lower()
CoreConvertCaseSensitive(power_series, unit) ==
  LET unit_lower == IF unit.isNone \/ unit.text = <<>> THEN S_w ELSE unit.text
      series_float == [i \in DOMAIN power_series |-> AsFloat(power_series[i])]
  IN  IF unit_lower = S_mw
      THEN [i \in DOMAIN series_float |-> series_float[i] \div 1000]
      ELSE IF unit_lower = <<"k", "w">>
      THEN [i \in DOMAIN series_float |-> series_float[i] * 1000]
      ELSE series_float

\* core.power_utils._convert_power_series_to_watts
CoreConvertPowerSeriesToWatts(power_series, unit) ==
  LET unit_lower == UnitLower(unit)
      series_float == [i \in DOMAIN power_series |-> AsFloat(power_series[i])]
  IN  IF unit_lower = S_mw
      THEN [i \in DOMAIN series_float |-> series_float[i] \div 1000]
      ELSE IF unit_lower = <<"k", "w">>
      THEN [i \in DOMAIN series_float |-> series_float[i] * 1000]
      ELSE IF unit_lower = S_w
      THEN series_float
      ELSE series_float

\* ------------------------------------------------------- DataFrame steps
RequiredCols == {"timestamp", "hostname", "value"}

Return(v) == [kind |-> "return", value |-> v, missing |-> {}]
Raise(cols) == [kind |-> "raise", value |-> 0, missing |-> cols]

\* a column check that finds nothing missing
NoMissingColumns(columns) == {}

\* required_cols - set(df.columns); non-empty iff not issubset
MissingColumns(columns) == RequiredCols \ columns

\* a filter that keeps every row
KeepAllHosts(rows, hostname) == rows

\* df[df["hostname"] == hostname]
FilterHostname(rows, hostname) == SelectSeq(rows, LAMBDA r : r.hostname = hostname)

\* pd.to_datetime(cell, utc=True, errors="coerce") of one cell
ToDatetimeCoerce(cell) == IF cell >= 0 THEN cell ELSE NaT

ParseTimestamps(rows) ==
  [i \in DOMAIN rows |-> [rows[i] EXCEPT !.timestamp = ToDatetimeCoerce(@)]]

\* dropna(subset=["timestamp"])
DropNaT(rows) == SelectSeq(rows, LAMBDA r : r.timestamp # NaT)

\* a sort that leaves the rows as they come
Unsorted(rows) == rows

\* sort_values("timestamp") on a short frame: ascending, equal keys keep
\* their input order
RECURSIVE SortValues(_)
SortValues(rows) ==
  IF rows = <<>> THEN <<>>
  ELSE LET n == Len(rows)
           head == SortValues(SubSeq(rows, 1, n - 1))
           r == rows[n]
           k == Cardinality({i \in DOMAIN head : head[i].timestamp <= r.timestamp})
       IN  SubSeq(head, 1, k) \o <<r>> \o SubSeq(head, k + 1, Len(head))

ValueColumn(rows) == [i \in DOMAIN rows |-> rows[i].value]

\* host_df["power_w"] = <converted series>
WithPowerW(rows, power_w) ==
  [i \in DOMAIN rows |->
     [timestamp |-> rows[i].timestamp, hostname |-> rows[i].hostname,
      value |-> rows[i].value, power_w |-> power_w[i]]]

MinTimestamp(rows) ==
  CHOOSE t \in {rows[i].timestamp : i \in DOMAIN rows} :
    \A i \in DOMAIN rows : t <= rows[i].timestamp

MaxTimestamp(rows) ==
  CHOOSE t \in {rows[i].timestamp : i \in DOMAIN rows} :
    \A i \in DOMAIN rows : t >= rows[i].timestamp

\* power (W) x duration (ticks), in energy units
WattSeconds(power_w, ticks) == 2 * power_w * ticks

\* ((a + b) / 2.0) x duration (ticks), in energy units
TrapezoidTerm(a, b, ticks) == (a + b) * ticks

\* timestamp.astype("int64") // 10**9: whole seconds since the epoch
TimeSeconds(t) == t \div TicksPerSecond

\* the loop of analysis.energy: total_seconds() of consecutive rows
RECURSIVE TrapezoidLoop(_, _)
TrapezoidLoop(rows, i) ==
  IF i > Len(rows) THEN 0
  ELSE TrapezoidTerm(rows[i].power_w, rows[i - 1].power_w,
                     rows[i].timestamp - rows[i - 1].timestamp)
       + TrapezoidLoop(rows, i + 1)

\* (avg_power * dt).sum(skipna=True) with dt the diff of whole seconds
RECURSIVE TrapezoidWholeSeconds(_, _)
TrapezoidWholeSeconds(rows, i) ==
  IF i > Len(rows) THEN 0
  ELSE TrapezoidTerm(rows[i].power_w, rows[i - 1].power_w,
                     (TimeSeconds(rows[i].timestamp) - TimeSeconds(rows[i - 1].timestamp))
                       * TicksPerSecond)
       + TrapezoidWholeSeconds(rows, i + 1)

Max(a, b) == IF a >= b THEN a ELSE b

\* ----------------------------------------------------------- integrators
\* analysis.energy.compute_energy_kwh_for_hostname
AnalysisEnergy(columns, rows, unit, hostname, start_time, end_time) ==
  IF MissingColumns(columns) # {} THEN Raise(MissingColumns(columns))
  ELSE
  LET host_df0 == FilterHostname(rows, hostname) IN
  IF host_df0 = <<>> THEN Return(0)
  ELSE
  LET host_df1 == SortValues(DropNaT(ParseTimestamps(host_df0))) IN
  IF Len(host_df1) < 1 THEN Return(0)
  ELSE
  LET host_df2 == WithPowerW(host_df1,
                    ConvertPowerSeriesToWatts(ValueColumn(host_df1), unit))
      query_start == IF start_time # NoTime THEN start_time ELSE NoTime
      query_end == IF end_time # NoTime THEN end_time ELSE NoTime
      host_df3 ==
        IF query_start # NoTime /\ MinTimestamp(host_df2) > query_start
        THEN SortValues(<<[timestamp |-> query_start, hostname |-> hostname,
                           value |-> host_df2[1].value,
                           power_w |-> host_df2[1].power_w]>> \o host_df2)
        ELSE host_df2
      host_df4 ==
        IF query_end # NoTime /\ MaxTimestamp(host_df3) < query_end
        THEN SortValues(host_df3 \o
                        <<[timestamp |-> query_end, hostname |-> hostname,
                           value |-> host_df3[Len(host_df3)].value,
                           power_w |-> host_df3[Len(host_df3)].power_w]>>)
        ELSE host_df3
  IN  Return(TrapezoidLoop(host_df4, 2))

\* core.power_utils.compute_energy_kwh_for_hostname
CoreEnergy(columns, rows, unit, hostname, start_time, end_time) ==
  IF MissingColumns(columns) # {} THEN Raise(MissingColumns(columns))
  ELSE
  LET host_df0 == FilterHostname(rows, hostname) IN
  IF host_df0 = <<>> THEN Return(0)
  ELSE
  LET host_df1 == SortValues(DropNaT(ParseTimestamps(host_df0))) IN
  IF Len(host_df1) < 1 THEN Return(0)
  ELSE
  LET host_df == WithPowerW(host_df1,
                    CoreConvertPowerSeriesToWatts(ValueColumn(host_df1), unit))
      query_start == IF start_time # NoTime THEN start_time ELSE NoTime
      query_end == IF end_time # NoTime THEN end_time ELSE NoTime
      data_start == host_df[1].timestamp
      data_end == host_df[Len(host_df)].timestamp
      first_power == host_df[1].power_w
      last_power == host_df[Len(host_df)].power_w
      start_energy ==
        IF query_start # NoTime /\ data_start > query_start
        THEN WattSeconds(first_power, data_start - query_start) ELSE 0
      end_energy ==
        IF query_end # NoTime /\ data_end < query_end
        THEN WattSeconds(last_power, query_end - data_end) ELSE 0
      \* total_energy_joules after the start estimate, after the data period
      \* (the single-point branch assigns, it does not add) and after the
      \* end estimate
      total_1 == 0 + start_energy
      total_2 ==
        IF Len(host_df) >= 2
        THEN total_1 + TrapezoidWholeSeconds(host_df, 2)
        ELSE WattSeconds(first_power, query_end - query_start)
      total_3 == total_2 + end_energy
  IN  IF Len(host_df) < 2 /\ ~(query_start # NoTime /\ query_end # NoTime)
      THEN Return(0)
      ELSE Return(Max(total_3, 0))

\* analysis.energy.EnergyCalculator.calculate_energy_for_hostname
CalculatorEnergy(columns, rows, unit, hostname, start_time, end_time) ==
  IF MissingColumns(columns) # {} THEN Raise(MissingColumns(columns))
  ELSE
  LET host_df0 == FilterHostname(rows, hostname) IN
  IF host_df0 = <<>> THEN Return(0)
  ELSE
  LET host_df1 == SortValues(DropNaT(ParseTimestamps(host_df0))) IN
  IF Len(host_df1) < 1 THEN Return(0)
  ELSE
  LET host_df == WithPowerW(host_df1,
                    ConvertPowerSeriesToWatts(ValueColumn(host_df1), unit))
      query_start == IF start_time # NoTime THEN start_time ELSE NoTime
      query_end == IF end_time # NoTime THEN end_time ELSE NoTime
      data_start == host_df[1].timestamp
      data_end == host_df[Len(host_df)].timestamp
      first_power == host_df[1].power_w
      last_power == host_df[Len(host_df)].power_w
      start_energy ==
        IF query_start # NoTime /\ data_start > query_start
        THEN WattSeconds(first_power, data_start - query_start) ELSE 0
      end_energy ==
        IF query_end # NoTime /\ data_end < query_end
        THEN WattSeconds(last_power, query_end - data_end) ELSE 0
      \* total_energy_joules after the start estimate, after the data period
      \* (the single-point branch assigns, it does not add) and after the
      \* end estimate
      total_1 == 0 + start_energy
      total_2 ==
        IF Len(host_df) >= 2
        THEN total_1 + TrapezoidWholeSeconds(host_df, 2)
        ELSE WattSeconds(first_power, query_end - query_start)
      total_3 == total_2 + end_energy
  IN  IF Len(host_df) < 2 /\ ~(query_start # NoTime /\ query_end # NoTime)
      THEN Return(0)
      ELSE Return(Max(total_3, 0))

\* ------------------------------------------------------------ the inputs
QueryHost == "rpg-93-1"
OtherHost == "rpc-91-1"
Values == {-1, 2}
Ticks == 0 .. MaxTick
\* a query window may reach beyond the last instant a sample can have
OptionalTimes == {NoTime} \cup (0 .. MaxTick + 1)

\* rows a query result can hold: readings of the queried host, a reading of
\* another host, and a reading whose timestamp does not parse
RowInputs ==
  {[hostname |-> QueryHost, timestamp |-> t, value |-> v] : t \in Ticks, v \in Values}
  \cup {[hostname |-> OtherHost, timestamp |-> 0, value |-> 2],
        [hostname |-> QueryHost, timestamp |-> Unparseable, value |-> 2]}

\* the frame of the data layer, the frame of the unit tests, a frame
\* without the value column
TestColumns == {"timestamp", "power_watts", "units"}
ColumnSets == {RequiredCols, TestColumns, {"timestamp", "hostname"}}

EnergyUnits == {Str(S_mW), Str(S_W)}
Units == {Str(S_mW), Str(S_MW), Str(S_mw), Str(S_kW), Str(S_KW), Str(S_Kw),
          Str(S_W), Str(S_w), Str(S_empty), Str(S_invalid_unit), Str(S_Wh),
          NoneUnit}

\* ----------------------------------------------------------------- state
VARIABLES columns, rows, unit, hostname, start_time, end_time, pc, ret,
          connections, pools, connection_info, held, clock,
          clients, connected_databases,
          table, idx, results, calls

\* the data-access objects: the client objects ever created, the
\* ConnectionPool's _pools and _connection_info, the client each caller of
\* get_pooled_connection holds, time.time(), and the
\* DatabaseConnectionManager's clients and connected_databases
\* the batch scripts: the items of the batch, the loop position, the energy
\* recorded for each item, and the items handed to the per-item function
batch == <<table, idx, results, calls>>

services == <<connections, pools, connection_info, held, clock,
              clients, connected_databases, batch>>

vars == <<columns, rows, unit, hostname, start_time, end_time, pc, ret, services>>
inputs == <<columns, rows, unit, hostname, start_time, end_time>>

\* a mapping without keys, as {} is in Python
EmptyDict == [k \in {} |-> 0]

\* no pool and no manager has been used
NoBatch == table = <<>> /\ idx = 0 /\ results = <<>> /\ calls = <<>>

NoDataAccess ==
  /\ connections = <<>>
  /\ pools = EmptyDict
  /\ connection_info = EmptyDict
  /\ held = EmptyDict
  /\ clock = 0
  /\ clients = EmptyDict
  /\ connected_databases = <<>>

NoServices == NoBatch /\ NoDataAccess

NoCall == [fn |-> "none", kind |-> "none", value |-> 0, missing |-> {}]

Called(fn, out) ==
  [fn |-> fn, kind |-> out.kind, value |-> out.value, missing |-> out.missing]

Init ==
  /\ columns \in ColumnSets
  /\ rows = <<>>
  /\ unit \in EnergyUnits
  /\ hostname = QueryHost
  /\ start_time \in OptionalTimes
  /\ end_time \in OptionalTimes
  /\ pc = "input"
  /\ ret = NoCall
  /\ NoServices

\* the data layer hands over one more row of the result set
AppendRow ==
  /\ pc = "input"
  /\ Len(rows) < (IF RequiredCols \subseteq columns THEN MaxRows ELSE MaxRowsMalformed)
  /\ \E r \in RowInputs : rows' = Append(rows, r)
  /\ UNCHANGED <<columns, unit, hostname, start_time, end_time, pc, ret, services>>

CallAnalysisEnergy ==
  /\ pc = "input"
  /\ ret' = Called("analysis.energy.compute_energy_kwh_for_hostname",
                   AnalysisEnergy(columns, rows, unit, hostname, start_time, end_time))
  /\ pc' = "done"
  /\ UNCHANGED <<inputs, services>>

CallCoreEnergy ==
  /\ pc = "input"
  /\ ret' = Called("core.power_utils.compute_energy_kwh_for_hostname",
                   CoreEnergy(columns, rows, unit, hostname, start_time, end_time))
  /\ pc' = "done"
  /\ UNCHANGED <<inputs, services>>

CallCalculatorEnergy ==
  /\ pc = "input"
  /\ ret' = Called("EnergyCalculator.calculate_energy_for_hostname",
                   CalculatorEnergy(columns, rows, unit, hostname, start_time, end_time))
  /\ pc' = "done"
  /\ UNCHANGED <<inputs, services>>

Next == AppendRow \/ CallAnalysisEnergy \/ CallCoreEnergy \/ CallCalculatorEnergy

Spec == Init /\ [][Next]_vars

\* ------------------------------------- the unit normaliser on its own
InitUnits ==
  /\ columns = RequiredCols
  /\ rows = <<>>
  /\ unit \in Units
  /\ hostname = QueryHost
  /\ start_time = NoTime
  /\ end_time = NoTime
  /\ pc = "input"
  /\ ret = NoCall
  /\ NoServices

CallConvert ==
  /\ pc = "input"
  /\ ret' = Called("utils.conversions.convert_power_series_to_watts",
                   Return(ConvertPowerSeriesToWatts(ValueColumn(rows), unit)))
  /\ pc' = "done"
  /\ UNCHANGED <<inputs, services>>

CallCoreConvert ==
  /\ pc = "input"
  /\ ret' = Called("core.power_utils._convert_power_series_to_watts",
                   Return(CoreConvertPowerSeriesToWatts(ValueColumn(rows), unit)))
  /\ pc' = "done"
  /\ UNCHANGED <<inputs, services>>

NextUnits == AppendRow \/ CallConvert \/ CallCoreConvert

SpecUnits == InitUnits /\ [][NextUnits]_vars

\* ================================================================ claims
EnergyFns == {"analysis.energy.compute_energy_kwh_for_hostname",
              "core.power_utils.compute_energy_kwh_for_hostname",
              "EnergyCalculator.calculate_energy_for_hostname"}
SinglePointFns == {"core.power_utils.compute_energy_kwh_for_hostname",
                   "EnergyCalculator.calculate_energy_for_hostname"}
ConvertFns == {"utils.conversions.convert_power_series_to_watts",
               "core.power_utils._convert_power_series_to_watts"}

WellFormed == RequiredCols \subseteq columns

\* what the specification says of the inputs, stated without the code's steps
MilliUnits == {Str(<<a, b>>) : a \in {"m", "M"}, b \in {"w", "W"}}
KiloUnits == {Str(<<a, b>>) : a \in {"k", "K"}, b \in {"w", "W"}}
WattUnits == {Str(<<b>>) : b \in {"w", "W"}}

ExpectedWatts(v, u) ==
  IF u \in MilliUnits THEN (v * MilliPerWatt) \div 1000
  ELSE IF u \in KiloUnits THEN (v * MilliPerWatt) * 1000
  ELSE v * MilliPerWatt

\* the rows of the queried host whose timestamp parses
Samples == {i \in DOMAIN rows : rows[i].hostname = hostname /\ rows[i].timestamp >= 0}
SampleTimes == {rows[i].timestamp : i \in Samples}
DistinctTimestamps == Cardinality(SampleTimes) = Cardinality(Samples)
DataStart == CHOOSE t \in SampleTimes : \A u \in SampleTimes : t <= u
DataEnd == CHOOSE t \in SampleTimes : \A u \in SampleTimes : t >= u
PowerAt(t) ==
  ExpectedWatts(rows[CHOOSE i \in Samples : rows[i].timestamp = t].value, unit)
Before(t) == CHOOSE u \in SampleTimes : u < t /\ \A w \in SampleTimes : w < t => w <= u

RECURSIVE SetSum(_)
SetSum(S) ==
  IF S = {} THEN 0
  ELSE LET x == CHOOSE y \in S : TRUE IN x[2] + SetSum(S \ {x})

\* sum of (P[i] + P[i-1]) / 2 x dt over consecutive samples, in energy units
ExactTrapezoid ==
  SetSum({<<t, (PowerAt(t) + PowerAt(Before(t))) * (t - Before(t))>> :
            t \in SampleTimes \ {DataStart}})
LeftEdge ==
  IF start_time # NoTime /\ DataStart > start_time
  THEN 2 * PowerAt(DataStart) * (DataStart - start_time) ELSE 0
RightEdge ==
  IF end_time # NoTime /\ DataEnd < end_time
  THEN 2 * PowerAt(DataEnd) * (end_time - DataEnd) ELSE 0

EnergyReturned == pc = "done" /\ ret.fn \in EnergyFns /\ ret.kind = "return"

\* C1: every integrator returns an energy >= 0, whatever the readings, the
\* unit and the window.
C1_EnergyNonNegative == EnergyReturned => ret.value >= 0

\* C2: with exactly one sample of power P and both window ends supplied, the
\* integrators that have the single-point branch return P x (query_end -
\* query_start), with no edge estimate on top (stated for the windows where
\* that product is not negative, so that the final clamp plays no part).
C2_SinglePointWindowEnergy ==
  (/\ EnergyReturned /\ ret.fn \in SinglePointFns /\ WellFormed
   /\ Cardinality(Samples) = 1
   /\ start_time # NoTime /\ end_time # NoTime
   /\ PowerAt(DataStart) * (end_time - start_time) >= 0)
  => ret.value = 2 * PowerAt(DataStart) * (end_time - start_time)

\* C3: one sample and a zero-length window (query_start = query_end) give 0.0,
\* wherever the sample lies.
C3_ZeroLengthWindowIsZero ==
  (/\ pc = "done" /\ ret.fn \in EnergyFns /\ WellFormed
   /\ Cardinality(Samples) = 1
   /\ start_time # NoTime /\ end_time = start_time)
  => (ret.kind = "return" /\ ret.value = 0)

\* C4: with at least two samples (at distinct instants) the result is the
\* trapezoid over the data plus first_power x (data_start - query_start) when
\* query_start is supplied and earlier than the data, plus last_power x
\* (query_end - data_end) when query_end is supplied and later than the data
\* (stated for the inputs where that sum is not negative).
C4_TrapezoidPlusEdges ==
  (/\ pc = "done" /\ ret.fn \in EnergyFns /\ WellFormed
   /\ Cardinality(Samples) >= 2 /\ DistinctTimestamps
   /\ LeftEdge + ExactTrapezoid + RightEdge >= 0)
  => (ret.kind = "return" /\ ret.value = LeftEdge + ExactTrapezoid + RightEdge)

\* every order in which the same rows can arrive
RowOrders(s) ==
  {[i \in DOMAIN s |-> s[f[i]]] :
     f \in {g \in [DOMAIN s -> DOMAIN s] :
              \A a, b \in DOMAIN s : a # b => g[a] # g[b]}}

NoEdgeToExtend ==
  \/ start_time = NoTime /\ end_time = NoTime
  \/ start_time = DataStart /\ end_time = DataEnd

AnalysisCalled ==
  pc = "done" /\ ret.fn = "analysis.energy.compute_energy_kwh_for_hostname"

SameInAnyRowOrder ==
  \A p \in RowOrders(rows) :
    AnalysisEnergy(columns, p, unit, hostname, start_time, end_time) =
      [kind |-> ret.kind, value |-> ret.value, missing |-> ret.missing]

\* C5 as stated: with at least two samples and no edge to extend, the energy
\* of analysis.energy.compute_energy_kwh_for_hostname is the trapezoidal sum
\* over the samples in timestamp order and does not depend on the row order
\* of the input, for every series.
C5_TrapezoidInAnyRowOrder ==
  (AnalysisCalled /\ WellFormed /\ Cardinality(Samples) >= 2 /\ NoEdgeToExtend)
  => /\ ret.kind = "return"
     /\ DistinctTimestamps => ret.value = ExactTrapezoid
     /\ SameInAnyRowOrder

\* C5 amended: the same, for series whose samples have pairwise distinct
\* timestamps.
C5_TrapezoidDistinctTimestamps ==
  (/\ AnalysisCalled /\ WellFormed /\ Cardinality(Samples) >= 2 /\ NoEdgeToExtend
   /\ DistinctTimestamps)
  => /\ ret.kind = "return"
     /\ ret.value = ExactTrapezoid
     /\ SameInAnyRowOrder

C5_Witness ==
  /\ AnalysisCalled /\ WellFormed
  /\ Len(rows) = 3 /\ Cardinality(Samples) = 3
  /\ NoEdgeToExtend /\ DistinctTimestamps
  /\ rows[1].timestamp > rows[2].timestamp
  /\ rows[1].value # rows[3].value
  /\ ret.value = ExactTrapezoid /\ ret.value > 0

C8_SinglePointNoWindowIsZero ==
  (/\ pc = "done" /\ ret.fn \in EnergyFns /\ WellFormed
   /\ Cardinality(Samples) = 1
   /\ (start_time = NoTime \/ end_time = NoTime))
  => (ret.kind = "return" /\ ret.value = 0)

ConvertCalled == pc = "done" /\ ret.fn \in ConvertFns

UnknownUnit == unit \notin MilliUnits \cup KiloUnits \cup WattUnits

UtilsConvertCalled ==
  pc = "done" /\ ret.fn = "utils.conversions.convert_power_series_to_watts"

AllIntegratorOutcomes ==
  {AnalysisEnergy(columns, rows, unit, hostname, start_time, end_time),
   CoreEnergy(columns, rows, unit, hostname, start_time, end_time),
   CalculatorEnergy(columns, rows, unit, hostname, start_time, end_time)}

\* C20: for an input with at least two parseable samples of the hostname, the
\* three integrators return the same energy for the same unit, hostname and
\* window (no, one or both boundaries).
C20_IntegratorsAgree ==
  (/\ pc = "done" /\ ret.fn \in EnergyFns /\ WellFormed
   /\ Cardinality(Samples) >= 2)
  => \A out \in AllIntegratorOutcomes :
       out.kind = "return" /\ out.value = ret.value

\* ======================================================== node detection
\* utils/node_detection.py.  A hostname is the sequence of its characters.
P_irc == <<"i", "r", "c", "-">>
P_pdu == <<"p", "d", "u", "-">>
P_rpg == <<"r", "p", "g", "-">>
P_rpc == <<"r", "p", "c", "-">>
H_rpg_93_1 == P_rpg \o <<"9", "3", "-", "1">>
H_rpc_91_1 == P_rpc \o <<"9", "1", "-", "1">>

\* '<rack>-<n>' of a rack in the nineties
RackUnit(rack, n) == <<"9", rack, "-", n>>

IRC_NODES ==
  {P_irc \o RackUnit(r, "5") : r \in {"1", "2", "4", "6"}}
  \cup {P_irc \o RackUnit(r, "3") : r \in {"3", "5"}}

PDU_NODES ==
  {P_pdu \o RackUnit(r, n) : r \in {"1", "2", "4", "6", "7"}, n \in {"1", "2", "3", "4"}}
  \cup {P_pdu \o RackUnit(r, n) : r \in {"3", "5"}, n \in {"1", "2"}}

IRC_POWER_METRICS ==
  <<"CompressorPower", "CondenserFanPower", "CoolDemand", "CoolOutput",
    "TotalAirSideCoolingDemand", "TotalSensibleCoolingPower">>
PDU_POWER_METRICS == <<"pdu">>

\* the query builders the function imports and hands back
QueryFuncs ==
  {"get_irc_metrics_with_joins", "get_pdu_metrics_with_joins",
   "get_compute_metrics_with_joins"}

\* str.startswith
StartsWith(s, prefix) ==
  Len(s) >= Len(prefix) /\ SubSeq(s, 1, Len(prefix)) = prefix

\* a classification whose last branch takes the zen4 database
GetNodeTypeDefaultZen4(host) ==
  IF host \in IRC_NODES
  THEN <<"irc", "get_irc_metrics_with_joins", "infra", "irc">>
  ELSE IF host \in PDU_NODES
  THEN <<"pdu", "get_pdu_metrics_with_joins", "infra", "pdu">>
  ELSE IF StartsWith(host, P_rpg)
  THEN <<"compute", "get_compute_metrics_with_joins", "h100", "idrac">>
  ELSE <<"compute", "get_compute_metrics_with_joins", "zen4", "idrac">>

\* utils.node_detection.get_node_type_and_query_func:
\* (node_type, query_func, database, schema)
GetNodeTypeAndQueryFunc(host) ==
  IF host \in IRC_NODES
  THEN <<"irc", "get_irc_metrics_with_joins", "infra", "irc">>
  ELSE IF host \in PDU_NODES
  THEN <<"pdu", "get_pdu_metrics_with_joins", "infra", "pdu">>
  ELSE IF StartsWith(host, P_rpg)
  THEN <<"compute", "get_compute_metrics_with_joins", "h100", "idrac">>
  ELSE IF StartsWith(host, P_rpc)
  THEN <<"compute", "get_compute_metrics_with_joins", "zen4", "idrac">>
  ELSE <<"compute", "get_compute_metrics_with_joins", "h100", "idrac">>

\* utils.node_detection.get_node_power_metrics
GetNodePowerMetrics(host) ==
  LET node_type == GetNodeTypeAndQueryFunc(host)[1]
  IN  IF node_type = "irc" THEN IRC_POWER_METRICS
      ELSE IF node_type = "pdu" THEN PDU_POWER_METRICS
      ELSE <<>>

\* hostname_mapping of core.power_utils (lines 269-274), in insertion order:
\* prefix -> (node_type, query_func, database, schema)
CoreHostnameMapping ==
  << [prefix |-> <<"p", "d", "u">>,
      target |-> <<"pdu", "get_pdu_metrics_with_joins", "infra", "pdu">>],
     [prefix |-> <<"i", "r", "c">>,
      target |-> <<"irc", "get_irc_metrics_with_joins", "infra", "irc">>],
     [prefix |-> <<"r", "p", "g">>,
      target |-> <<"h100", "get_compute_metrics_with_joins", "h100", "idrac">>],
     [prefix |-> <<"r", "p", "c">>,
      target |-> <<"zen4", "get_compute_metrics_with_joins", "zen4", "idrac">>] >>

\* hostname_mapping of QueryManager (lines 225-230)
ManagerHostnameMapping ==
  << [prefix |-> <<"p", "d", "u">>,
      target |-> <<"pdu", "get_pdu_metrics_with_joins", "infra", "pdu">>],
     [prefix |-> <<"i", "r", "c">>,
      target |-> <<"irc", "get_irc_metrics_with_joins", "infra", "irc">>],
     [prefix |-> <<"r", "p", "g">>,
      target |-> <<"h100", "get_compute_metrics_with_joins", "h100", "idrac">>],
     [prefix |-> <<"r", "p", "c">>,
      target |-> <<"zen4", "get_compute_metrics_with_joins", "zen4", "idrac">>] >>

\* raise ValueError(f"Invalid hostname: {hostname}")
InvalidHostname == Raise({})

\* the loop over hostname_mapping.items(): the first prefix the hostname
\* starts with decides, and no prefix raises
FirstPrefixMatch(mapping, host) ==
  LET hits == SelectSeq(mapping, LAMBDA e : StartsWith(host, e.prefix))
  IN  IF hits = <<>> THEN InvalidHostname ELSE Return(hits[1].target)

\* core.power_utils.get_node_type_and_query_func
CoreGetNodeTypeAndQueryFunc(host) == FirstPrefixMatch(CoreHostnameMapping, host)

\* QueryManager._get_node_type_and_query_func
ManagerGetNodeTypeAndQueryFunc(host) == FirstPrefixMatch(ManagerHostnameMapping, host)

\* hostnames: the listed nodes, the names of the unit tests, and names that
\* differ from them in case, in length or before the prefix
HostPrefixes ==
  {P_irc, P_pdu, P_rpg, P_rpc, <<"R", "P", "G", "-">>, <<"r", "p">>, <<>>,
   <<"x">> \o P_rpc, <<"u", "n", "k", "n", "o", "w", "n", "-">>}
HostSuffixes ==
  {RackUnit("1", "5"), RackUnit("1", "1"), RackUnit("3", "1"), RackUnit("3", "3"),
   <<"n", "o", "d", "e", "-", "1">>, <<"n", "o", "d", "e">>, <<>>}
Hostnames == {p \o s : p \in HostPrefixes, s \in HostSuffixes}

InitNodes ==
  /\ columns = RequiredCols
  /\ rows = <<>>
  /\ unit = Str(S_W)
  /\ hostname \in Hostnames
  /\ start_time = NoTime
  /\ end_time = NoTime
  /\ pc = "input"
  /\ ret = NoCall
  /\ NoServices

CallGetNodeTypeAndQueryFunc ==
  /\ pc = "input"
  /\ ret' = Called("utils.node_detection.get_node_type_and_query_func",
                   Return(GetNodeTypeAndQueryFunc(hostname)))
  /\ pc' = "done"
  /\ UNCHANGED <<inputs, services>>

CallGetNodePowerMetrics ==
  /\ pc = "input"
  /\ ret' = Called("utils.node_detection.get_node_power_metrics",
                   Return(GetNodePowerMetrics(hostname)))
  /\ pc' = "done"
  /\ UNCHANGED <<inputs, services>>

CallCoreGetNodeTypeAndQueryFunc ==
  /\ pc = "input"
  /\ ret' = Called("core.power_utils.get_node_type_and_query_func",
                   CoreGetNodeTypeAndQueryFunc(hostname))
  /\ pc' = "done"
  /\ UNCHANGED <<inputs, services>>

CallManagerGetNodeTypeAndQueryFunc ==
  /\ pc = "input"
  /\ ret' = Called("QueryManager._get_node_type_and_query_func",
                   ManagerGetNodeTypeAndQueryFunc(hostname))
  /\ pc' = "done"
  /\ UNCHANGED <<inputs, services>>

NextNodes ==
  \/ CallGetNodeTypeAndQueryFunc
  \/ CallGetNodePowerMetrics
  \/ CallCoreGetNodeTypeAndQueryFunc
  \/ CallManagerGetNodeTypeAndQueryFunc

SpecNodes == InitNodes /\ [][NextNodes]_vars

\* ------------------------------------------------------- claims, C18-C19
NodeTypeCalled ==
  pc = "done" /\ ret.fn = "utils.node_detection.get_node_type_and_query_func"

NodeMetricsCalled ==
  pc = "done" /\ ret.fn = "utils.node_detection.get_node_power_metrics"

\* the hostname begins with the characters of the prefix
HasPrefix(prefix) ==
  \A i \in DOMAIN prefix : i \in DOMAIN hostname /\ hostname[i] = prefix[i]

\* (node_type, database, schema) of the returned tuple
Classified == <<ret.value[1], ret.value[3], ret.value[4]>>

C19_MetricsNonEmpty ==
  NodeMetricsCalled => (ret.kind = "return" /\ Len(ret.value) > 0)

\* ============================================ window / data disambiguator
\* scripts/calculate_energy_table.py, scripts/query_node_energy.py
MaxSamples == 2

\* the two thresholds, in seconds
TimezoneGapSeconds == 7200
SuspiciousGapSeconds == 3600

\* (a - b).total_seconds() > seconds, for a duration held in ticks
ExceedsSeconds(ticks, seconds) == ticks > seconds * TicksPerSecond

Abs(x) == IF x < 0 THEN 0 - x ELSE x

\* `df['units'].iloc[0] if 'units' in df.columns and df['units'].notna().any()
\*  else <default>`
FirstRowUnit(cols, frame, default) ==
  IF "units" \in cols /\ \E i \in DOMAIN frame : ~frame[i].units.isNone
  THEN frame[1].units
  ELSE default

\* the outcome of one of the two call sites: the energy, and use_boundaries
\* once the function has got as far as setting it
NoData == [energy |-> 0, decided |-> FALSE, use_boundaries |-> FALSE]
Decided(use_boundaries, energy) ==
  [energy |-> energy, decided |-> TRUE, use_boundaries |-> use_boundaries]

\* a first check that already fires at exactly two hours
TableUseBoundariesInclusive(frame, start, end) ==
  LET data_start == MinTimestamp(frame)
      data_end == MaxTimestamp(frame)
      time_gap_before == IF data_start > start THEN data_start - start ELSE 0
      time_gap_after == IF end > data_end THEN end - data_end ELSE 0
  IN  IF ~(start # NoTime /\ end # NoTime /\ Len(frame) > 0) THEN TRUE
      ELSE IF time_gap_before >= TimezoneGapSeconds * TicksPerSecond THEN FALSE
      ELSE IF time_gap_after >= TimezoneGapSeconds * TicksPerSecond THEN FALSE
      ELSE IF \/ ExceedsSeconds(Abs(time_gap_before), SuspiciousGapSeconds)
              \/ ExceedsSeconds(Abs(time_gap_after), SuspiciousGapSeconds)
      THEN ~((end - start) > 0 /\ (data_end - data_start) > (end - start) * 2)
      ELSE TRUE

\* a secondary check that compares the durations whatever the query_duration
TableUseBoundariesUnguarded(frame, start, end) ==
  LET data_start == MinTimestamp(frame)
      data_end == MaxTimestamp(frame)
      time_gap_before == IF data_start > start THEN data_start - start ELSE 0
      time_gap_after == IF end > data_end THEN end - data_end ELSE 0
  IN  IF ~(start # NoTime /\ end # NoTime /\ Len(frame) > 0) THEN TRUE
      ELSE IF ExceedsSeconds(time_gap_before, TimezoneGapSeconds) THEN FALSE
      ELSE IF ExceedsSeconds(time_gap_after, TimezoneGapSeconds) THEN FALSE
      ELSE IF \/ ExceedsSeconds(Abs(time_gap_before), SuspiciousGapSeconds)
              \/ ExceedsSeconds(Abs(time_gap_after), SuspiciousGapSeconds)
      THEN ~((data_end - data_start) > (end - start) * 2)
      ELSE TRUE

\* calculate_energy_for_row, lines 57-90: use_boundaries
TableUseBoundaries(frame, start, end) ==
  LET data_start == MinTimestamp(frame)
      data_end == MaxTimestamp(frame)
      query_start_utc == IF start # NoTime THEN start ELSE NoTime
      query_end_utc == IF end # NoTime THEN end ELSE NoTime
      time_gap_before ==
        IF data_start > query_start_utc THEN data_start - query_start_utc ELSE 0
      time_gap_after ==
        IF query_end_utc > data_end THEN query_end_utc - data_end ELSE 0
      query_duration == query_end_utc - query_start_utc
      data_duration == data_end - data_start
  IN  IF ~(query_start_utc # NoTime /\ query_end_utc # NoTime /\ Len(frame) > 0)
      THEN TRUE
      ELSE IF ExceedsSeconds(time_gap_before, TimezoneGapSeconds) THEN FALSE
      ELSE IF ExceedsSeconds(time_gap_after, TimezoneGapSeconds) THEN FALSE
      ELSE IF \/ ExceedsSeconds(Abs(time_gap_before), SuspiciousGapSeconds)
              \/ ExceedsSeconds(Abs(time_gap_after), SuspiciousGapSeconds)
      THEN ~(query_duration > 0 /\ data_duration > query_duration * 2)
      ELSE TRUE

\* query_metric_energy, lines 54-68: use_boundaries
MetricUseBoundaries(frame, start, end) ==
  LET data_start == MinTimestamp(frame)
      data_end == MaxTimestamp(frame)
      query_start_utc == start
      query_end_utc == end
      time_gap_before ==
        IF data_start > query_start_utc THEN data_start - query_start_utc ELSE 0
      time_gap_after ==
        IF query_end_utc > data_end THEN query_end_utc - data_end ELSE 0
  IN  IF ~(query_start_utc # NoTime /\ query_end_utc # NoTime /\ Len(frame) > 0)
      THEN TRUE
      ELSE ~(\/ ExceedsSeconds(time_gap_before, TimezoneGapSeconds)
             \/ ExceedsSeconds(time_gap_after, TimezoneGapSeconds))

\* an integrator call that passes the window on whatever use_boundaries is
BoundedEnergyAlwaysWindow(cols, frame, u, host, start, end, use_boundaries) ==
  LET out == AnalysisEnergy(cols, frame, u, host, start, end)
  IN  IF out.kind = "return" THEN out.value ELSE 0

\* the integrator call both functions end with: the window is passed on only
\* when use_boundaries is set; an exception makes the function return 0.0
BoundedEnergy(cols, frame, u, host, start, end, use_boundaries) ==
  LET out == IF use_boundaries
             THEN AnalysisEnergy(cols, frame, u, host, start, end)
             ELSE AnalysisEnergy(cols, frame, u, host, NoTime, NoTime)
  IN  IF out.kind = "return" THEN out.value ELSE 0

\* scripts.calculate_energy_table.calculate_energy_for_row
CalculateEnergyForRow(cols, frame, host, start, end) ==
  IF frame = <<>> THEN NoData
  ELSE LET u == FirstRowUnit(cols, frame, Str(S_W))
           use_boundaries == TableUseBoundaries(frame, start, end)
       IN  Decided(use_boundaries,
                   BoundedEnergy(cols, frame, u, host, start, end, use_boundaries))

\* scripts.query_node_energy.query_metric_energy
QueryMetricEnergy(cols, frame, host, start, end) ==
  IF frame = <<>> THEN NoData
  ELSE LET u == FirstRowUnit(cols, frame, Str(S_W))
           use_boundaries == MetricUseBoundaries(frame, start, end)
       IN  Decided(use_boundaries,
                   BoundedEnergy(cols, frame, u, host, start, end, use_boundaries))

\* EnergyCalculator.calculate_energy, lines 239-251, for the result of one
\* metric: the energy_results entry, or no entry for an empty result
CalculateEnergy(cols, frame, host, start, end) ==
  IF frame = <<>> THEN Return(NoData)
  ELSE LET u == IF "units" \in cols THEN frame[1].units ELSE Str(S_W)
           out == CalculatorEnergy(cols, frame, u, host, start, end)
       IN  IF out.kind = "return"
           THEN Return([energy |-> out.value, decided |-> FALSE,
                        use_boundaries |-> FALSE])
           ELSE out

\* instants around the two thresholds, in seconds, and as ticks
GapSeconds == {0, 1, 2, 3600, 3601, 7200, 7201}
GapTicks == {sec * TicksPerSecond : sec \in GapSeconds}

\* the columns of a joined metric query
QueryColumns == {"timestamp", "hostname", "source", "fqdd", "value", "units"}

\* rows of such a result: the unit cell is NULL or the unit of the metric
SampleInputs ==
  {[hostname |-> QueryHost, timestamp |-> t, value |-> 2, units |-> u] :
     t \in GapTicks, u \in {NoneUnit, Str(S_mW)}}

InitTable ==
  /\ columns = QueryColumns
  /\ rows = <<>>
  /\ unit = NoneUnit
  /\ hostname = QueryHost
  /\ start_time \in {NoTime} \cup GapTicks
  /\ end_time \in {NoTime} \cup GapTicks
  /\ pc = "input"
  /\ ret = NoCall
  /\ NoServices

\* the query returns one more row
AppendSample ==
  /\ pc = "input"
  /\ Len(rows) < MaxSamples
  /\ \E r \in SampleInputs : rows' = Append(rows, r)
  /\ UNCHANGED <<columns, unit, hostname, start_time, end_time, pc, ret, services>>

CallCalculateEnergyForRow ==
  /\ pc = "input"
  /\ ret' = Called("calculate_energy_for_row",
                   Return(CalculateEnergyForRow(columns, rows, hostname,
                                                start_time, end_time)))
  /\ pc' = "done"
  /\ UNCHANGED <<inputs, services>>

CallQueryMetricEnergy ==
  /\ pc = "input"
  /\ ret' = Called("query_metric_energy",
                   Return(QueryMetricEnergy(columns, rows, hostname,
                                            start_time, end_time)))
  /\ pc' = "done"
  /\ UNCHANGED <<inputs, services>>

\* start_time and end_time are datetimes here (strftime is called on them)
CallCalculateEnergy ==
  /\ pc = "input"
  /\ start_time # NoTime /\ end_time # NoTime
  /\ ret' = Called("EnergyCalculator.calculate_energy",
                   CalculateEnergy(columns, rows, hostname, start_time, end_time))
  /\ pc' = "done"
  /\ UNCHANGED <<inputs, services>>

NextTable ==
  \/ AppendSample
  \/ CallCalculateEnergyForRow
  \/ CallQueryMetricEnergy
  \/ CallCalculateEnergy

SpecTable == InitTable /\ [][NextTable]_vars

\* ------------------------------------------------------- claims, C11-C12
Disambiguators == {"calculate_energy_for_row", "query_metric_energy"}

\* a disambiguator ran on a non-empty result with both query times supplied
Disambiguated ==
  /\ pc = "done" /\ ret.fn \in Disambiguators /\ ret.value.decided
  /\ start_time # NoTime /\ end_time # NoTime

FrameTimes == {rows[i].timestamp : i \in DOMAIN rows}
FrameStart == CHOOSE t \in FrameTimes : \A u \in FrameTimes : t <= u
FrameEnd == CHOOSE t \in FrameTimes : \A u \in FrameTimes : t >= u

\* max(data_start - query_start, 0) and max(query_end - data_end, 0), in ticks
GapBefore == Max(FrameStart - start_time, 0)
GapAfter == Max(end_time - FrameEnd, 0)
QueryDuration == end_time - start_time
DataDuration == FrameEnd - FrameStart
SecondsAsTicks(sec) == sec * TicksPerSecond

\* C11: in both disambiguators a gap of more than 7200 s gives use_boundaries
\* = False whatever the durations (7201 s does, 7200 s does not by itself);
\* gaps of at most 3600 s give True; a gap of 7199 s, the other gap being no
\* more than 7200 s, with data_duration <= 2 x query_duration gives True, and
\* so does a gap of exactly 7200 s.
C11_GapThresholds ==
  Disambiguated =>
    /\ (GapBefore > SecondsAsTicks(7200) \/ GapAfter > SecondsAsTicks(7200))
         => ~ret.value.use_boundaries
    /\ (GapBefore <= SecondsAsTicks(3600) /\ GapAfter <= SecondsAsTicks(3600))
         => ret.value.use_boundaries
    /\ (/\ {SecondsAsTicks(7199), SecondsAsTicks(7200)} \cap {GapBefore, GapAfter} # {}
        /\ GapBefore <= SecondsAsTicks(7200) /\ GapAfter <= SecondsAsTicks(7200)
        /\ DataDuration <= 2 * QueryDuration)
         => ret.value.use_boundaries

\* a gap of 7201 s has switched the boundaries off in calculate_energy_for_row
C11_Witness ==
  /\ Disambiguated /\ ret.fn = "calculate_energy_for_row"
  /\ GapBefore = SecondsAsTicks(7201) /\ ~ret.value.use_boundaries

\* the secondary check is the one that decides: no gap above 7200 s, one
\* above 3600 s
SecondaryCheck ==
  /\ Disambiguated /\ ret.fn = "calculate_energy_for_row"
  /\ GapBefore <= SecondsAsTicks(7200) /\ GapAfter <= SecondsAsTicks(7200)
  /\ (GapBefore > SecondsAsTicks(3600) \/ GapAfter > SecondsAsTicks(3600))

\* C12 as stated: under the secondary check use_boundaries is False exactly
\* when data_duration > 2 x query_duration, for every query_duration, zero
\* included.
C12_SecondaryCheckAnyDuration ==
  SecondaryCheck =>
    (ret.value.use_boundaries <=> ~(DataDuration > 2 * QueryDuration))

\* C12 amended: under the secondary check use_boundaries is False exactly
\* when query_duration is positive and data_duration > 2 x query_duration;
\* with a query_duration of zero or less it stays True.
C12_SecondaryCheckPositiveDuration ==
  SecondaryCheck =>
    (ret.value.use_boundaries
       <=> ~(QueryDuration > 0 /\ DataDuration > 2 * QueryDuration))

\* a positive query_duration with data more than twice as long
C12_Witness ==
  /\ SecondaryCheck /\ QueryDuration > 0 /\ DataDuration > 2 * QueryDuration
  /\ ~ret.value.use_boundaries

\* ------------------------------------------------------------ claim, C17
UnitCallSites ==
  {"calculate_energy_for_row", "query_metric_energy",
   "EnergyCalculator.calculate_energy"}

SomeUnitKnown == \E i \in DOMAIN rows : ~rows[i].units.isNone

\* the unit of the first row whose unit is not null
FirstNonNullUnit ==
  rows[CHOOSE i \in DOMAIN rows :
         /\ ~rows[i].units.isNone
         /\ \A j \in DOMAIN rows : ~rows[j].units.isNone => i <= j].units

\* the same result with that unit written in every row
UniformRows == [i \in DOMAIN rows |-> [rows[i] EXCEPT !.units = FirstNonNullUnit]]

\* what a call site returns for a frame
CallSiteOutcome(fn, frame) ==
  CASE fn = "calculate_energy_for_row" ->
         Return(CalculateEnergyForRow(columns, frame, hostname, start_time, end_time))
    [] fn = "query_metric_energy" ->
         Return(QueryMetricEnergy(columns, frame, hostname, start_time, end_time))
    [] fn = "EnergyCalculator.calculate_energy" ->
         CalculateEnergy(columns, frame, hostname, start_time, end_time)

\* C17: when some row of the result carries a unit, every call site converts
\* the whole series with the unit of the first row whose unit is not null,
\* also when earlier rows have a null unit: the call returns what it returns
\* when that unit stands in every row.
C17_FirstNonNullUnitApplied ==
  (pc = "done" /\ ret.fn \in UnitCallSites /\ SomeUnitKnown)
  => /\ ret.kind = CallSiteOutcome(ret.fn, UniformRows).kind
     /\ ret.value = CallSiteOutcome(ret.fn, UniformRows).value

\* =================================================== component breakdowns
\* scripts/run_h100_power_queries.py, scripts/run_zen4_power_queries.py,
\* cli/commands/visualize.py.  Metric names and dictionary keys are strings,
\* held as the sequence of their characters.
M_CPUPower == <<"C", "P", "U", "P", "o", "w", "e", "r">>
M_PkgPwr == <<"P", "k", "g", "P", "w", "r">>
M_TotalCPUPower ==
  <<"T", "o", "t", "a", "l", "C", "P", "U", "P", "o", "w", "e", "r">>
M_DRAMPwr == <<"D", "R", "A", "M", "P", "w", "r">>
M_TotalMemoryPower ==
  <<"T", "o", "t", "a", "l", "M", "e", "m", "o", "r", "y", "P", "o", "w",
  "e", "r">>
M_PowerConsumption ==
  <<"P", "o", "w", "e", "r", "C", "o", "n", "s", "u", "m", "p", "t", "i",
  "o", "n">>
M_TotalFanPower ==
  <<"T", "o", "t", "a", "l", "F", "a", "n", "P", "o", "w", "e", "r">>
M_TotalStoragePower ==
  <<"T", "o", "t", "a", "l", "S", "t", "o", "r", "a", "g", "e", "P", "o",
  "w", "e", "r">>
M_SystemInputPower ==
  <<"S", "y", "s", "t", "e", "m", "I", "n", "p", "u", "t", "P", "o", "w",
  "e", "r">>
M_SystemOutputPower ==
  <<"S", "y", "s", "t", "e", "m", "O", "u", "t", "p", "u", "t", "P", "o",
  "w", "e", "r">>
M_SystemPowerConsumption ==
  <<"S", "y", "s", "t", "e", "m", "P", "o", "w", "e", "r", "C", "o", "n",
  "s", "u", "m", "p", "t", "i", "o", "n">>
M_WattsReading ==
  <<"W", "a", "t", "t", "s", "R", "e", "a", "d", "i", "n", "g">>

CPU_METRICS == <<M_CPUPower, M_PkgPwr, M_TotalCPUPower>>
MEMORY_METRICS == <<M_DRAMPwr, M_TotalMemoryPower>>
GPU_METRICS == <<M_PowerConsumption>>
FAN_METRICS == <<M_TotalFanPower>>
STORAGE_METRICS == <<M_TotalStoragePower>>
SYSTEM_METRICS ==
  <<M_SystemInputPower, M_SystemOutputPower, M_SystemPowerConsumption, M_WattsReading>>

K_FQDD == <<"_", "F", "Q", "D", "D", "_">>
K_TOTAL == <<"_", "T", "O", "T", "A", "L">>
K_SYSTEMOUTPUT == <<"S", "Y", "S", "T", "E", "M", "O", "U", "T", "P", "U", "T">>

LowerLetters ==
  <<"a", "b", "c", "d", "e", "f", "g", "h", "i", "j", "k", "l", "m", "n",
  "o", "p", "q", "r", "s", "t", "u", "v", "w", "x", "y", "z">>
UpperLetters ==
  <<"A", "B", "C", "D", "E", "F", "G", "H", "I", "J", "K", "L", "M", "N",
  "O", "P", "Q", "R", "S", "T", "U", "V", "W", "X", "Y", "Z">>

\* str.lower() and str.upper(), character by character
LowerOfLetter ==
  [c \in {UpperLetters[i] : i \in DOMAIN UpperLetters} |->
     LowerLetters[CHOOSE i \in DOMAIN UpperLetters : UpperLetters[i] = c]]
UpperOfLetter ==
  [c \in {LowerLetters[i] : i \in DOMAIN LowerLetters} |->
     UpperLetters[CHOOSE i \in DOMAIN LowerLetters : LowerLetters[i] = c]]
LowerOf(c) == IF c \in DOMAIN LowerOfLetter THEN LowerOfLetter[c] ELSE c
UpperOf(c) == IF c \in DOMAIN UpperOfLetter THEN UpperOfLetter[c] ELSE c
StrLower(s) == [i \in DOMAIN s |-> LowerOf(s[i])]
StrUpper(s) == [i \in DOMAIN s |-> UpperOf(s[i])]

\* str.endswith, and `sub in s`
EndsWith(s, suffix) ==
  Len(s) >= Len(suffix) /\ SubSeq(s, Len(s) - Len(suffix) + 1, Len(s)) = suffix
Contains(s, sub) ==
  \E i \in 0 .. Len(s) - Len(sub) : SubSeq(s, i + 1, i + Len(sub)) = sub

\* a dict in insertion order: d[k] = v keeps the place of a key already there
DictSet(d, k, v) ==
  IF \E i \in DOMAIN d : d[i].key = k
  THEN [i \in DOMAIN d |-> IF d[i].key = k THEN [key |-> k, val |-> v] ELSE d[i]]
  ELSE Append(d, [key |-> k, val |-> v])

DictHas(d, k) == \E i \in DOMAIN d : d[i].key = k

\* d.get(k, default)
DictGet(d, k, default) ==
  IF DictHas(d, k) THEN d[CHOOSE i \in DOMAIN d : d[i].key = k].val ELSE default

\* sum(d.values())
RECURSIVE DictSum(_)
DictSum(d) == IF d = <<>> THEN 0 ELSE d[1].val + DictSum(Tail(d))

\* the rows of the query for one metric (each row is tagged df['metric'])
ResultOf(frame, metric) == SelectSeq(frame, LAMBDA r : r.metric = metric)

\* df['fqdd'].dropna().unique(): in order of first appearance
RECURSIVE UniqueFqdds(_)
UniqueFqdds(df) ==
  IF df = <<>> THEN <<>>
  ELSE LET seen == UniqueFqdds(SubSeq(df, 1, Len(df) - 1))
           cell == df[Len(df)].fqdd
       IN  IF cell.isNone \/ (\E i \in DOMAIN seen : seen[i] = cell.text)
           THEN seen ELSE Append(seen, cell.text)

\* df[df['fqdd'] == fq]
OfFqdd(df, fq) == SelectSeq(df, LAMBDA r : ~r.fqdd.isNone /\ r.fqdd.text = fq)

RECURSIVE SumValues(_)
SumValues(df) == IF df = <<>> THEN 0 ELSE df[1].value + SumValues(Tail(df))

\* the elements of a set of instants, ascending
RECURSIVE Ascending(_)
Ascending(S) ==
  IF S = {} THEN <<>>
  ELSE LET least == CHOOSE t \in S : \A u \in S : t <= u
       IN  <<least>> \o Ascending(S \ {least})

\* df.groupby(<timestamp and the columns constant in df>, as_index=False)
\* ['value'].sum(): one row per timestamp, ascending, with the summed value;
\* the units column is not among the columns of the outcome
GroupByTimestamp(df) ==
  LET times == Ascending({df[i].timestamp : i \in DOMAIN df})
  IN  [k \in DOMAIN times |->
         [timestamp |-> times[k], hostname |-> df[1].hostname,
          value |-> SumValues(SelectSeq(df, LAMBDA r : r.timestamp = times[k]))]]

GroupedColumns == {"timestamp", "hostname", "fqdd", "value"}
TotalColumns == {"timestamp", "value", "hostname", "fqdd", "units", "metric"}

\* H100: the energy of one FQDD of a metric, lines 289-298 and 317-324; the
\* grouped frame has no units column, so the default unit is the one used
H100FqddEnergy(df, fq, default, host, start, end) ==
  LET fq_df == GroupByTimestamp(OfFqdd(df, fq))
      unit_str == IF "units" \in GroupedColumns THEN fq_df[1].units ELSE default
  IN  CoreEnergy(GroupedColumns, fq_df, unit_str, host, start, end).value

RECURSIVE H100FqddEntries(_, _, _, _, _, _, _, _)
H100FqddEntries(category_energy, prefix, fqs, df, default, host, start, end) ==
  IF fqs = <<>> THEN category_energy
  ELSE H100FqddEntries(
         DictSet(category_energy, prefix \o fqs[1],
                 H100FqddEnergy(df, fqs[1], default, host, start, end)),
         prefix, Tail(fqs), df, default, host, start, end)

RECURSIVE H100FqddTotal(_, _, _, _, _, _)
H100FqddTotal(fqs, df, default, host, start, end) ==
  IF fqs = <<>> THEN 0
  ELSE H100FqddEnergy(df, fqs[1], default, host, start, end)
       + H100FqddTotal(Tail(fqs), df, default, host, start, end)

\* H100, lines 328-341: the energy of the TOTAL series of a CPU metric
H100TotalSeriesEnergy(df, host, start, end) ==
  LET df_grouped == GroupByTimestamp(df)
      grouped_units == df[1].units
      unit_str == IF ~grouped_units.isNone THEN grouped_units
                  ELSE FirstRowUnit(QueryColumns, df, Str(S_W))
  IN  CoreEnergy(TotalColumns, df_grouped, unit_str, host, start, end).value

\* H100, lines 262-365: what one metric adds to category_energy
H100Metric(category, metric, df, category_energy, host, start, end) ==
  IF df = <<>> THEN category_energy
  ELSE IF category = "GPU"
  THEN LET fqs == UniqueFqdds(df)
           gpu_total_energy == H100FqddTotal(fqs, df, Str(S_mW), host, start, end)
       IN  DictSet(H100FqddEntries(category_energy, metric \o K_FQDD, fqs, df,
                                   Str(S_mW), host, start, end),
                   metric \o K_TOTAL, gpu_total_energy)
  ELSE IF category = "CPU"
  THEN LET fqs == UniqueFqdds(df)
           cpu_total_energy == H100FqddTotal(fqs, df, Str(S_W), host, start, end)
           total_energy == H100TotalSeriesEnergy(df, host, start, end)
       IN  DictSet(H100FqddEntries(category_energy, M_CPUPower \o K_FQDD, fqs, df,
                                   Str(S_W), host, start, end),
                   metric \o K_TOTAL,
                   IF cpu_total_energy > 0 THEN cpu_total_energy ELSE total_energy)
  ELSE DictSet(category_energy, metric,
               CoreEnergy(QueryColumns, df, FirstRowUnit(QueryColumns, df, Str(S_W)),
                          host, start, end).value)

\* the loop over the metrics of one category
RECURSIVE H100Category(_, _, _, _, _, _, _)
H100Category(category, metrics, frame, category_energy, host, start, end) ==
  IF metrics = <<>> THEN category_energy
  ELSE H100Category(category, Tail(metrics), frame,
                    H100Metric(category, metrics[1], ResultOf(frame, metrics[1]),
                               category_energy, host, start, end),
                    host, start, end)

\* the first value whose lower-cased key starts with the prefix, else the sum
\* of all values
PreferTotal(d, prefix) ==
  LET hits == SelectSeq(d, LAMBDA e : StartsWith(StrLower(e.key), StrLower(prefix)))
  IN  IF hits # <<>> THEN hits[1].val ELSE DictSum(d)

\* a GPU total that adds every GPU entry, the TOTAL entry included
H100GpuTotalSumAll(d) == DictSum(d)

\* H100, lines 464-483
H100GpuTotal(d) ==
  LET gpu_total_energy ==
        DictSum(SelectSeq(d, LAMBDA e : StartsWith(e.key, M_PowerConsumption \o K_FQDD)))
      totals == SelectSeq(d, LAMBDA e : EndsWith(e.key, K_TOTAL))
  IN  IF gpu_total_energy = 0
      THEN IF totals # <<>> THEN totals[1].val ELSE DictSum(d)
      ELSE gpu_total_energy

Breakdown(energy_analysis, cpu, mem, gpu, fan, storage, other) ==
  [chart |-> TRUE, energy_analysis |-> energy_analysis,
   components |-> [CPU |-> cpu, MEMORY |-> mem, GPU |-> gpu, FAN |-> fan,
                   STORAGE |-> storage],
   Other |-> other]

\* H100, lines 232-239
H100AllMetrics ==
  [CPU |-> CPU_METRICS, MEMORY |-> MEMORY_METRICS, GPU |-> GPU_METRICS,
   FAN |-> FAN_METRICS, STORAGE |-> STORAGE_METRICS, SYSTEM |-> SYSTEM_METRICS]

\* H100, lines 245-368: the loop over the categories
H100EnergyAnalysis(frame, host, start, end) ==
  [category \in DOMAIN H100AllMetrics |->
     H100Category(category, H100AllMetrics[category], frame, <<>>, host, start, end)]

\* H100, lines 552-570: the top-level pie
H100TopPie(energy_analysis, system_output_energy, cpu_total_val, gpu_total_val, mem_val, fan_val, storage_val) ==
  LET comp_sum_no_other == cpu_total_val + gpu_total_val + mem_val + fan_val + storage_val
      other_val == Max(system_output_energy - comp_sum_no_other, 0)
  IN  Breakdown(energy_analysis, cpu_total_val, mem_val, gpu_total_val, fan_val,
                storage_val, other_val)

\* H100, lines 434-507: component_breakdown
H100ComponentBreakdown(energy_analysis) ==
  H100TopPie(energy_analysis,
             DictGet(energy_analysis.SYSTEM, M_SystemOutputPower, 0),
             PreferTotal(energy_analysis.CPU, M_TotalCPUPower),
             H100GpuTotal(energy_analysis.GPU),
             PreferTotal(energy_analysis.MEMORY, M_TotalMemoryPower),
             PreferTotal(energy_analysis.FAN, M_TotalFanPower),
             PreferTotal(energy_analysis.STORAGE, M_TotalStoragePower))

\* H100PowerQueryRunner.get_comprehensive_metric_analysis
H100Analysis(frame, start, end) ==
  H100ComponentBreakdown(H100EnergyAnalysis(frame, QueryHost, start, end))

\* ZEN4, lines 143-174: what one metric adds to category_energy
Zen4Metric(metric, df, category_energy, host, start, end) ==
  IF df = <<>> THEN category_energy
  ELSE LET sorted == SortValues(DropNaT(ParseTimestamps(df)))
           unit_str == FirstRowUnit(QueryColumns, sorted, Str(S_W))
           out == AnalysisEnergy(QueryColumns \cup {"metric"}, sorted, unit_str,
                                 host, start, end)
       IN  IF out.kind = "return" THEN DictSet(category_energy, metric, out.value)
           ELSE category_energy

RECURSIVE Zen4Category(_, _, _, _, _, _)
Zen4Category(metrics, frame, category_energy, host, start, end) ==
  IF metrics = <<>> THEN category_energy
  ELSE Zen4Category(Tail(metrics), frame,
                    Zen4Metric(metrics[1], ResultOf(frame, metrics[1]),
                               category_energy, host, start, end),
                    host, start, end)

\* ZEN4, lines 180-184
pick_total_or_sum(energy_analysis, cat, total_prefix) ==
  PreferTotal(energy_analysis[cat], total_prefix)

\* ZEN4, lines 120-126
Zen4AllMetrics ==
  [CPU |-> CPU_METRICS, MEMORY |-> MEMORY_METRICS, FAN |-> FAN_METRICS,
   STORAGE |-> STORAGE_METRICS, SYSTEM |-> SYSTEM_METRICS]

\* ZEN4, lines 131-177: the loop over the categories
Zen4EnergyAnalysis(frame, host, start, end) ==
  [category \in DOMAIN Zen4AllMetrics |->
     Zen4Category(Zen4AllMetrics[category], frame, <<>>, host, start, end)]

\* ZEN4, lines 201-210: the top-level pie, without GPU
Zen4TopPie(energy_analysis, system_output, cpu_total, mem_total, fan_total, storage_total) ==
  LET comp_sum == cpu_total + mem_total + fan_total + storage_total
      other_val == Max(system_output - comp_sum, 0)
  IN  Breakdown(energy_analysis, cpu_total, mem_total, 0, fan_total,
                storage_total, other_val)

\* ZEN4, lines 186-190
Zen4ComponentTotals(energy_analysis) ==
  Zen4TopPie(energy_analysis,
             DictGet(energy_analysis.SYSTEM, M_SystemOutputPower, 0),
             pick_total_or_sum(energy_analysis, "CPU", M_TotalCPUPower),
             pick_total_or_sum(energy_analysis, "MEMORY", M_TotalMemoryPower),
             pick_total_or_sum(energy_analysis, "FAN", M_TotalFanPower),
             pick_total_or_sum(energy_analysis, "STORAGE", M_TotalStoragePower))

\* Zen4PowerQueryRunner.get_comprehensive_metric_analysis
Zen4Analysis(frame, start, end) ==
  Zen4ComponentTotals(Zen4EnergyAnalysis(frame, OtherHost, start, end))

\* the metrics the visualize command queries, in the order of its results
ResultMetrics ==
  CPU_METRICS \o MEMORY_METRICS \o GPU_METRICS \o FAN_METRICS
    \o STORAGE_METRICS \o SYSTEM_METRICS

\* visualize, lines 192-205: energy_data
RECURSIVE EnergyData(_, _, _, _, _, _)
EnergyData(metrics, frame, energy_data, host, start, end) ==
  IF metrics = <<>> THEN energy_data
  ELSE LET df == ResultOf(frame, metrics[1])
           u == FirstRowUnit(QueryColumns, df, Str(S_W))
           energy == AnalysisEnergy(QueryColumns, df, u, df[1].hostname,
                                    start, end).value
       IN  EnergyData(Tail(metrics), frame,
                      IF df # <<>> /\ energy > 0
                      THEN DictSet(energy_data, metrics[1], energy)
                      ELSE energy_data,
                      host, start, end)

\* [m.upper() for m in <category metrics>]
UpperNames(category_metrics) ==
  [i \in DOMAIN category_metrics |-> StrUpper(category_metrics[i])]
CPU_UPPER == UpperNames(CPU_METRICS)
MEMORY_UPPER == UpperNames(MEMORY_METRICS)
GPU_UPPER == UpperNames(GPU_METRICS)
FAN_UPPER == UpperNames(FAN_METRICS)
STORAGE_UPPER == UpperNames(STORAGE_METRICS)

\* any(m in metric_upper for m in <upper-cased category metrics>)
InCategory(metric_upper, category_upper) ==
  \E i \in DOMAIN category_upper : Contains(metric_upper, category_upper[i])

\* visualize, lines 223-248: the component a metric is added to
ComponentOf(metric) ==
  LET metric_upper == StrUpper(metric)
  IN  IF InCategory(metric_upper, CPU_UPPER) THEN "CPU"
      ELSE IF InCategory(metric_upper, MEMORY_UPPER) THEN "MEMORY"
      ELSE IF InCategory(metric_upper, GPU_UPPER) THEN "GPU"
      ELSE IF InCategory(metric_upper, FAN_UPPER) THEN "FAN"
      ELSE IF InCategory(metric_upper, STORAGE_UPPER) THEN "STORAGE"
      ELSE IF Contains(metric_upper, K_SYSTEMOUTPUT) THEN "SystemOutput"
      ELSE "Other"

ComponentSum(energy_data, component) ==
  DictSum(SelectSeq(energy_data, LAMBDA e : ComponentOf(e.key) = component))

NoChart ==
  [chart |-> FALSE, energy_analysis |-> <<>>,
   components |-> [CPU |-> 0, MEMORY |-> 0, GPU |-> 0, FAN |-> 0, STORAGE |-> 0],
   Other |-> 0]

\* visualize, lines 250-254: Other
PieOther(energy_data, system_output_energy, cpu, mem, gpu, fan, storage, uncategorized) ==
  LET component_sum == cpu + mem + gpu + fan + storage
      other_val ==
        IF system_output_energy > 0
        THEN Max(system_output_energy - component_sum, 0)
        ELSE uncategorized
  IN  Breakdown(energy_data, cpu, mem, gpu, fan, storage, other_val)

\* visualize, line 244: the energy of the last metric naming the system output
PieSystemOutput(outputs) == IF outputs = <<>> THEN 0 ELSE outputs[Len(outputs)].val

\* visualize, lines 207-248: component_energy
PieComponents(energy_data) ==
  IF energy_data = <<>> THEN NoChart
  ELSE PieOther(energy_data,
                PieSystemOutput(SelectSeq(energy_data,
                                  LAMBDA e : ComponentOf(e.key) = "SystemOutput")),
                ComponentSum(energy_data, "CPU"),
                ComponentSum(energy_data, "MEMORY"),
                ComponentSum(energy_data, "GPU"),
                ComponentSum(energy_data, "FAN"),
                ComponentSum(energy_data, "STORAGE"),
                ComponentSum(energy_data, "Other"))

\* cli.commands.visualize.create_energy_pie_chart
create_energy_pie_chart(frame, host, start, end) ==
  PieComponents(EnergyData(ResultMetrics, frame, <<>>, host, start, end))

\* ------------------------------------------------ the results of a node
F_1 == <<"1">>
F_2 == <<"2">>

Reading(metric, host, sec, fqdd, v, u) ==
  [metric |-> metric, hostname |-> host, timestamp |-> sec * TicksPerSecond,
   fqdd |-> fqdd, value |-> v, units |-> u]

\* a metric read at the start and at the end of the window
Steady(metric, host, fqdd, v, u) ==
  <<Reading(metric, host, 0, fqdd, v, u), Reading(metric, host, 2, fqdd, v, u)>>

\* the window of the analysis: two seconds
WindowStart == 0 * TicksPerSecond
WindowEnd == 2 * TicksPerSecond

\* four readings of two GPUs that do not report at the same instants
StaggeredGpus(host) ==
  <<Reading(M_PowerConsumption, host, 0, Str(F_1), 4000, Str(S_mW)),
    Reading(M_PowerConsumption, host, 1, Str(F_2), 2000, Str(S_mW)),
    Reading(M_PowerConsumption, host, 2, Str(F_1), 4000, Str(S_mW)),
    Reading(M_PowerConsumption, host, 2, Str(F_2), 2000, Str(S_mW))>>

\* what the query of each metric can return for the node: nothing, or readings
NodeResults(host) ==
  {cpu \o pkg \o tcpu \o dram \o tmem \o gpus \o fan \o sto \o sin \o sout \o spc \o wr :
     cpu \in {<<>>, Steady(M_CPUPower, host, Str(F_1), 2, Str(S_W))
                      \o Steady(M_CPUPower, host, Str(F_2), 2, Str(S_W))},
     pkg \in {<<>>, Steady(M_PkgPwr, host, Str(F_1), 3, Str(S_W))},
     tcpu \in {<<>>, Steady(M_TotalCPUPower, host, NoneUnit, 5, Str(S_W))},
     dram \in {<<>>, Steady(M_DRAMPwr, host, Str(F_1), 1, Str(S_W))},
     tmem \in {<<>>, Steady(M_TotalMemoryPower, host, NoneUnit, 2, Str(S_W))},
     gpus \in {<<>>, StaggeredGpus(host)},
     fan \in {<<>>, Steady(M_TotalFanPower, host, NoneUnit, 1, Str(S_W))},
     sto \in {<<>>, Steady(M_TotalStoragePower, host, NoneUnit, 1, Str(S_W))},
     sin \in {<<>>, Steady(M_SystemInputPower, host, NoneUnit, 40, Str(S_W))},
     sout \in {<<>>, Steady(M_SystemOutputPower, host, NoneUnit, 3, Str(S_W)),
                     Steady(M_SystemOutputPower, host, NoneUnit, 30, Str(S_W))},
     spc \in {<<>>, Steady(M_SystemPowerConsumption, host, NoneUnit, 35, Str(S_W))},
     wr \in {<<>>, Steady(M_WattsReading, host, NoneUnit, 36, Str(S_W))}}

InitBreakdown ==
  /\ columns = QueryColumns
  /\ hostname \in {QueryHost, OtherHost}
  /\ rows \in NodeResults(hostname)
  /\ unit = NoneUnit
  /\ start_time = WindowStart
  /\ end_time = WindowEnd
  /\ pc = "input"
  /\ ret = NoCall
  /\ NoServices

\* the H100 script queries the node 'rpg-93-1'
CallH100Analysis ==
  /\ pc = "input"
  /\ hostname = QueryHost
  /\ ret' = Called("H100PowerQueryRunner.get_comprehensive_metric_analysis",
                   Return(H100Analysis(rows, start_time, end_time)))
  /\ pc' = "done"
  /\ UNCHANGED <<inputs, services>>

\* the ZEN4 script queries the node 'rpc-91-1'
CallZen4Analysis ==
  /\ pc = "input"
  /\ hostname = OtherHost
  /\ ret' = Called("Zen4PowerQueryRunner.get_comprehensive_metric_analysis",
                   Return(Zen4Analysis(rows, start_time, end_time)))
  /\ pc' = "done"
  /\ UNCHANGED <<inputs, services>>

CallCreateEnergyPieChart ==
  /\ pc = "input"
  /\ ret' = Called("create_energy_pie_chart",
                   Return(create_energy_pie_chart(rows, hostname, start_time, end_time)))
  /\ pc' = "done"
  /\ UNCHANGED <<inputs, services>>

NextBreakdown == CallH100Analysis \/ CallZen4Analysis \/ CallCreateEnergyPieChart

SpecBreakdown == InitBreakdown /\ [][NextBreakdown]_vars

\* ------------------------------------------------------- claims, C13-C16
H100Fn == "H100PowerQueryRunner.get_comprehensive_metric_analysis"
Zen4Fn == "Zen4PowerQueryRunner.get_comprehensive_metric_analysis"
PieFn == "create_energy_pie_chart"

\* a breakdown was produced
BrokenDown == pc = "done" /\ ret.fn \in {H100Fn, Zen4Fn, PieFn} /\ ret.value.chart

\* the energies a breakdown computed for the metrics of a category
EnergiesOf(category) ==
  IF ret.fn = PieFn
  THEN SelectSeq(ret.value.energy_analysis,
                 LAMBDA e : \E i \in DOMAIN category : category[i] = e.key)
  ELSE IF category = CPU_METRICS THEN ret.value.energy_analysis.CPU
  ELSE IF category = MEMORY_METRICS THEN ret.value.energy_analysis.MEMORY
  ELSE IF category = FAN_METRICS THEN ret.value.energy_analysis.FAN
  ELSE IF category = STORAGE_METRICS THEN ret.value.energy_analysis.STORAGE
  ELSE ret.value.energy_analysis.SYSTEM

\* the energy of the SystemOutputPower metric, 0 when there is none
SystemOutputEnergy == DictGet(EnergiesOf(SYSTEM_METRICS), M_SystemOutputPower, 0)

ComponentTotal ==
  ret.value.components.CPU + ret.value.components.MEMORY + ret.value.components.GPU
    + ret.value.components.FAN + ret.value.components.STORAGE

\* C13: in the H100, the ZEN4 and the pie-chart breakdown the reported Other
\* is max(SystemOutputPower energy - (CPU + MEMORY + GPU + FAN + STORAGE), 0):
\* never negative, and 0 when the components exceed the system output or when
\* there is no SystemOutputPower energy.
C13_OtherIsClampedDifference ==
  BrokenDown =>
    /\ ret.value.Other = Max(SystemOutputEnergy - ComponentTotal, 0)
    /\ ret.value.Other >= 0
    /\ SystemOutputEnergy = 0 => ret.value.Other = 0

\* the entries of the H100 CPU category, per FQDD and in all
CpuFqddEntries ==
  SelectSeq(ret.value.energy_analysis.CPU,
            LAMBDA e : StartsWith(e.key, M_CPUPower \o K_FQDD))

HasKeyPrefix(d, prefix) == \E i \in DOMAIN d : StartsWith(d[i].key, prefix)

\* C14: without a canonical total among the energies of a category the
\* category energy is the sum of the per-FQDD energies, an aggregate
\* '<metric>_TOTAL' entry not being added to the per-FQDD entries it was built
\* from: the H100 CPU energy without TotalCPUPower is the sum of the
\* 'CPUPower_FQDD_*' energies.
C14_FallbackSumsPerFqddOnce ==
  (/\ pc = "done" /\ ret.fn = H100Fn
   /\ ~HasKeyPrefix(ret.value.energy_analysis.CPU, M_TotalCPUPower))
  => ret.value.components.CPU = DictSum(CpuFqddEntries)

\* the energy entry of a canonical total metric, under the key the
\* implementation gives it
TotalKey(metric) == IF ret.fn = H100Fn /\ metric = M_TotalCPUPower
                    THEN metric \o K_TOTAL ELSE metric

TotalPresent(category, metric) == DictHas(EnergiesOf(category), TotalKey(metric))
TotalEnergy(category, metric) == DictGet(EnergiesOf(category), TotalKey(metric), 0)

\* C15: when the canonical total of a category is present, the category
\* energy of each breakdown (H100, ZEN4, pie chart) is the energy of that one
\* metric, the other metrics of the category not being added.
C15_CanonicalTotalAlone ==
  BrokenDown =>
    /\ TotalPresent(CPU_METRICS, M_TotalCPUPower)
         => ret.value.components.CPU = TotalEnergy(CPU_METRICS, M_TotalCPUPower)
    /\ TotalPresent(MEMORY_METRICS, M_TotalMemoryPower)
         => ret.value.components.MEMORY = TotalEnergy(MEMORY_METRICS, M_TotalMemoryPower)
    /\ TotalPresent(FAN_METRICS, M_TotalFanPower)
         => ret.value.components.FAN = TotalEnergy(FAN_METRICS, M_TotalFanPower)
    /\ TotalPresent(STORAGE_METRICS, M_TotalStoragePower)
         => ret.value.components.STORAGE = TotalEnergy(STORAGE_METRICS, M_TotalStoragePower)

\* the GPU readings of the node, its FQDDs, and the readings of one FQDD
GpuRows == ResultOf(rows, M_PowerConsumption)
GpuFqdds == {GpuRows[i].fqdd.text : i \in {j \in DOMAIN GpuRows : ~GpuRows[j].fqdd.isNone}}
GpuRowsOf(fq) == SelectSeq(GpuRows, LAMBDA r : r.fqdd = Str(fq))

\* the energy of one FQDD's own series, and of the per-timestamp sum
OwnSeriesEnergy(fq) ==
  CoreEnergy(RequiredCols, GpuRowsOf(fq), Str(S_mW), hostname, start_time, end_time).value
SummedSeriesEnergy ==
  CoreEnergy(RequiredCols, GroupByTimestamp(GpuRows), Str(S_mW), hostname,
             start_time, end_time).value

\* C16: the H100 'GPU Total' is the sum over the FQDDs of the energy of each
\* FQDD's own series, integrated separately; the integral of the summed TOTAL
\* series is not what is reported.
C16_GpuTotalIsSumOfPerFqddEnergies ==
  (pc = "done" /\ ret.fn = H100Fn)
  => ret.value.components.GPU = SetSum({<<fq, OwnSeriesEnergy(fq)>> : fq \in GpuFqdds})

\* two GPUs reporting at different instants: the sum of their energies is
\* reported and differs from the energy of the summed series
C16_Witness ==
  /\ pc = "done" /\ ret.fn = H100Fn
  /\ Cardinality(GpuFqdds) = 2
  /\ ret.value.components.GPU > 0
  /\ ret.value.components.GPU # SummedSeriesEnergy

\* ------------------------------------------- the conversion pushed to SQL
SQL_DIVIDE == "m.value / 1000.0 as value"
SQL_MULTIPLY == "m.value * 1000.0 as value"
SQL_PLAIN == "m.value as value"

\* a generator that compares the unit as given, without lower()
SqlCaseSensitive(unit_str) ==
  LET unit_lower == IF unit_str.isNone \/ unit_str.text = <<>> THEN S_w ELSE unit_str.text
  IN  IF unit_lower = S_mw THEN SQL_DIVIDE
      ELSE IF unit_lower = <<"k", "w">> THEN SQL_MULTIPLY
      ELSE SQL_PLAIN

\* utils.conversions.get_power_conversion_sql
ConversionsGetPowerConversionSql(unit_str) ==
  LET unit_lower == UnitLower(unit_str)
  IN  IF unit_lower = S_mw THEN SQL_DIVIDE
      ELSE IF unit_lower = <<"k", "w">> THEN SQL_MULTIPLY
      ELSE IF unit_lower = S_w THEN SQL_PLAIN
      ELSE SQL_PLAIN

\* utils.query_helpers.get_power_conversion_sql
QueryHelpersGetPowerConversionSql(unit_str) ==
  LET unit_lower == UnitLower(unit_str)
  IN  IF unit_lower = S_mw THEN SQL_DIVIDE
      ELSE IF unit_lower = <<"k", "w">> THEN SQL_MULTIPLY
      ELSE IF unit_lower = S_w THEN SQL_PLAIN
      ELSE SQL_PLAIN

\* core.power_utils.get_power_conversion_sql
CoreGetPowerConversionSql(unit_str) ==
  LET unit_lower == UnitLower(unit_str)
  IN  IF unit_lower = S_mw THEN SQL_DIVIDE
      ELSE IF unit_lower = <<"k", "w">> THEN SQL_MULTIPLY
      ELSE IF unit_lower = S_w THEN SQL_PLAIN
      ELSE SQL_PLAIN

CallConversionsSql ==
  /\ pc = "input"
  /\ ret' = Called("utils.conversions.get_power_conversion_sql",
                   Return(ConversionsGetPowerConversionSql(unit)))
  /\ pc' = "done"
  /\ UNCHANGED <<inputs, services>>

CallQueryHelpersSql ==
  /\ pc = "input"
  /\ ret' = Called("utils.query_helpers.get_power_conversion_sql",
                   Return(QueryHelpersGetPowerConversionSql(unit)))
  /\ pc' = "done"
  /\ UNCHANGED <<inputs, services>>

CallCoreSql ==
  /\ pc = "input"
  /\ ret' = Called("core.power_utils.get_power_conversion_sql",
                   Return(CoreGetPowerConversionSql(unit)))
  /\ pc' = "done"
  /\ UNCHANGED <<inputs, services>>

NextSql == AppendRow \/ CallConversionsSql \/ CallQueryHelpersSql \/ CallCoreSql

SpecSql == InitUnits /\ [][NextSql]_vars

\* --------------------------------------------------------- claims, C21
SqlFns == {"utils.conversions.get_power_conversion_sql",
           "utils.query_helpers.get_power_conversion_sql",
           "core.power_utils.get_power_conversion_sql"}

SqlCalled == pc = "done" /\ ret.fn \in SqlFns

\* what the data source computes for a stored value m.value under the
\* expression: the value column of the result, in thousandths
SqlValue(sql, v) ==
  CASE sql = SQL_DIVIDE -> (v * MilliPerWatt) \div 1000
    [] sql = SQL_MULTIPLY -> (v * MilliPerWatt) * 1000
    [] sql = SQL_PLAIN -> v * MilliPerWatt

AppliedUnit == FirstRowUnit(columns, rows, Str(S_W))

ObservedPowerAt(t) ==
  ExpectedWatts(rows[CHOOSE i \in Samples : rows[i].timestamp = t].value, AppliedUnit)

\* the trapezoidal sum over the observed samples only, in energy units
ObservedTrapezoid ==
  SetSum({<<t, (ObservedPowerAt(t) + ObservedPowerAt(Before(t))) * (t - Before(t))>> :
            t \in SampleTimes \ {DataStart}})

\* what the integrator returns when it is given the query window
WindowedEnergy ==
  AnalysisEnergy(columns, rows, AppliedUnit, hostname, start_time, end_time).value

DisambiguatorReturned == pc = "done" /\ ret.fn \in Disambiguators /\ ret.value.decided

\* C22: in calculate_energy_for_row and query_metric_energy, with
\* use_boundaries False the energy has no edge extension: it is the
\* trapezoidal sum over the observed samples only (0.0 for one sample); with
\* use_boundaries True it is what the integrator returns for the original
\* start_time and end_time.
C22_WindowOnlyWithBoundaries ==
  DisambiguatorReturned =>
    IF ret.value.use_boundaries
    THEN ret.value.energy = WindowedEnergy
    ELSE /\ ret.value.energy = ObservedTrapezoid
         /\ Cardinality(SampleTimes) = 1 => ret.value.energy = 0

\* two samples far from the window: the edges are left out, and they would
\* have counted
C22_Witness ==
  /\ DisambiguatorReturned /\ ~ret.value.use_boundaries
  /\ Cardinality(SampleTimes) = 2
  /\ ret.value.energy > 0
  /\ ret.value.energy # WindowedEnergy

\* ======================================================= connection pool
\* database/connection_pool.py.  Every method body runs under self._lock, so
\* each call is one step; the callers are threads inside get_pooled_connection.
MaxConnections == 1
MaxIdleTime == 1
MaxClock == 1
MaxClients == 3

Databases == {"h100", "zen4"}
DefaultSchema == "idrac"
Callers == {"t1", "t2"}
None == 0

\* ConnectionPool._get_pool_key: f"{database}_{schema}"
GetPoolKey(database, schema) == <<database, schema>>

\* d[key] = value
WithItem(d, key, value) ==
  [k \in DOMAIN d \cup {key} |-> IF k = key THEN value ELSE d[k]]

\* del d[key]
WithoutItem(d, key) == [k \in DOMAIN d \ {key} |-> d[k]]

\* client.disconnect() on each of the clients
Disconnected(conns, ids) ==
  [i \in DOMAIN conns |-> IF i \in ids THEN [conns[i] EXCEPT !.connected = FALSE]
                          ELSE conns[i]]

\* the clients waiting in a queue
QueuedClients(queue) == {queue[i].client : i \in DOMAIN queue}

\* lines 100-106: the pool and its counters, created on first use
EnsurePool(d, key, fresh) == IF key \in DOMAIN d THEN d ELSE WithItem(d, key, fresh)

\* a get_nowait that leaves the entry in the queue
QueuePeekRest(queue) == queue

\* Queue.get_nowait(): what stays in the queue
QueueRest(queue) == Tail(queue)

PoolResult(fn, key, client, why) ==
  [fn |-> fn, kind |-> IF fn = "get_pooled_connection" /\ client = None
                       THEN "raise" ELSE "return",
   value |-> [key |-> key, client |-> client, why |-> why], missing |-> {}]

\* get_pooled_connection, lines 239-242: pool.get_connection(database, schema)
\* (lines 89-130) and ConnectionError when it returns None
GetConnection(caller, database, create_ok) ==
  LET key == GetPoolKey(database, DefaultSchema)
      all_pools == EnsurePool(pools, key, <<>>)
      all_info == EnsurePool(connection_info, key,
                             [total_connections |-> 0, active_connections |-> 0])
      pool == all_pools[key]
      info == all_info[key]
      new_client == Len(connections) + 1
  IN  /\ held[caller] = None
      /\ IF pool # <<>>
         THEN /\ pools' = WithItem(all_pools, key, QueueRest(pool))
              /\ connection_info' =
                   WithItem(all_info, key,
                            [info EXCEPT !.active_connections = @ + 1])
              /\ held' = [held EXCEPT ![caller] = pool[1].client]
              /\ ret' = PoolResult("get_pooled_connection", key, pool[1].client, "reused")
              /\ UNCHANGED connections
         ELSE IF info.total_connections < MaxConnections
         THEN IF create_ok /\ Len(connections) < MaxClients
              THEN /\ connections' = Append(connections, [key |-> key, connected |-> TRUE])
                   /\ pools' = all_pools
                   /\ connection_info' =
                        WithItem(all_info, key,
                                 [total_connections |-> info.total_connections + 1,
                                  active_connections |-> info.active_connections + 1])
                   /\ held' = [held EXCEPT ![caller] = new_client]
                   /\ ret' = PoolResult("get_pooled_connection", key, new_client, "created")
              ELSE /\ pools' = all_pools
                   /\ connection_info' = all_info
                   /\ ret' = PoolResult("get_pooled_connection", key, None, "failed")
                   /\ UNCHANGED <<connections, held>>
         ELSE /\ pools' = all_pools
              /\ connection_info' = all_info
              /\ ret' = PoolResult("get_pooled_connection", key, None, "full")
              /\ UNCHANGED <<connections, held>>
      /\ UNCHANGED <<inputs, batch, pc, clock, clients, connected_databases>>

\* get_pooled_connection, lines 244-246: pool.return_connection(client,
\* database, schema), lines 132-170; the health check is `SELECT 1`
ReturnConnection(caller, healthy) ==
  LET client == held[caller]
      key == connections[client].key
  IN  /\ held[caller] # None
      /\ held' = [held EXCEPT ![caller] = None]
      /\ IF key \in DOMAIN pools
         THEN IF healthy
              THEN /\ pools' = [pools EXCEPT ![key] =
                                  Append(@, [client |-> client, last_used |-> clock])]
                   /\ connection_info' =
                        [connection_info EXCEPT ![key].active_connections = @ - 1]
                   /\ UNCHANGED connections
              ELSE /\ connections' = Disconnected(connections, {client})
                   /\ connection_info' =
                        [connection_info EXCEPT ![key].total_connections = @ - 1,
                                                ![key].active_connections = @ - 1]
                   /\ UNCHANGED pools
         ELSE UNCHANGED <<connections, pools, connection_info>>
      /\ ret' = PoolResult("ConnectionPool.return_connection", key, client,
                           IF healthy THEN "healthy" ELSE "invalid")
      /\ UNCHANGED <<inputs, batch, pc, clock, clients, connected_databases>>

\* the entries of a queue that have not been idle for max_idle_time
FreshEntries(queue, current_time) ==
  SelectSeq(queue, LAMBDA e : current_time - e.last_used < MaxIdleTime)

\* ConnectionPool._cleanup_old_connections, run by the cleanup thread
CleanupOldConnections ==
  LET old == UNION {QueuedClients(pools[k]) \ QueuedClients(FreshEntries(pools[k], clock)) :
                      k \in DOMAIN pools}
  IN  /\ pools' = [k \in DOMAIN pools |-> FreshEntries(pools[k], clock)]
      /\ connections' = Disconnected(connections, old)
      /\ ret' = PoolResult("ConnectionPool._cleanup_old_connections", None, None, "reaped")
      /\ UNCHANGED <<inputs, batch, pc, connection_info, held, clock, clients, connected_databases>>

\* ConnectionPool.close_all_connections (and shutdown, close_all_pools)
CloseAllConnections ==
  /\ connections' = Disconnected(connections,
                                 UNION {QueuedClients(pools[k]) : k \in DOMAIN pools})
  /\ pools' = EmptyDict
  /\ connection_info' = EmptyDict
  /\ ret' = PoolResult("ConnectionPool.close_all_connections", None, None, "closed")
  /\ UNCHANGED <<inputs, batch, pc, held, clock, clients, connected_databases>>

\* time passes
Tick ==
  /\ clock < MaxClock
  /\ clock' = clock + 1
  /\ ret' = NoCall
  /\ UNCHANGED <<inputs, batch, pc, connections, pools, connection_info, held, clients,
                 connected_databases>>

InitPool ==
  /\ columns = {}
  /\ rows = <<>>
  /\ unit = NoneUnit
  /\ hostname = QueryHost
  /\ start_time = NoTime
  /\ end_time = NoTime
  /\ pc = "pool"
  /\ ret = NoCall
  /\ connections = <<>>
  /\ pools = EmptyDict
  /\ connection_info = EmptyDict
  /\ held = [c \in Callers |-> None]
  /\ clock = 0
  /\ clients = EmptyDict
  /\ connected_databases = <<>>
  /\ NoBatch

NextPool ==
  \/ \E caller \in Callers, database \in Databases, create_ok \in BOOLEAN :
       GetConnection(caller, database, create_ok)
  \/ \E caller \in Callers, healthy \in BOOLEAN : ReturnConnection(caller, healthy)
  \/ CleanupOldConnections
  \/ CloseAllConnections
  \/ Tick

SpecPool == InitPool /\ [][NextPool]_vars

\* ------------------------------------------------------- claims, C24-C28
PoolKeys == {GetPoolKey(database, DefaultSchema) : database \in Databases}

\* the clients of a key that are connected: idle in a queue, or checked out
\* and not disconnected
OpenClients(key) ==
  {i \in DOMAIN connections : connections[i].key = key /\ connections[i].connected}

\* the clients of a key that some caller holds
CheckedOut(key) ==
  {held[c] : c \in {d \in Callers : held[d] # None /\ connections[held[d]].key = key}}

IdleClients == UNION {QueuedClients(pools[k]) : k \in DOMAIN pools}

\* C24: after any interleaving of get_connection, return_connection, the
\* idle reaper and close_all_connections, the open connections of a key
\* (idle plus checked out) are never more than max_connections.
C24_PoolBounded ==
  pc = "pool" =>
    \A key \in PoolKeys :
      Cardinality(OpenClients(key) \cap (IdleClients \cup CheckedOut(key))) <= MaxConnections

GetCalled == pc = "pool" /\ ret.fn = "get_pooled_connection"

\* C25: get_connection refuses because the pool is full only when
\* max_connections connections of the key are open; with fewer open and a
\* connection that can be created it returns a client and
\* get_pooled_connection raises nothing.
C25_RefusedOnlyWhenFull ==
  (GetCalled /\ ret.value.why # "failed")
  => \/ ret.kind = "return" /\ ret.value.client # None
     \/ Cardinality(OpenClients(ret.value.key)) >= MaxConnections

\* C26: for every key, active_connections as get_pool_status reports it is
\* never negative and is the number of clients of the key checked out.
C26_ActiveCountsCheckedOut ==
  pc = "pool" =>
    \A key \in DOMAIN connection_info :
      /\ connection_info[key].active_connections >= 0
      /\ connection_info[key].active_connections = Cardinality(CheckedOut(key))

\* C27: no client is held by two callers at once, no client waits in an idle
\* queue while a caller holds it, and the reaper and close_all_connections
\* disconnect no client that is checked out.
C27_CheckedOutIsExclusive ==
  pc = "pool" =>
    /\ \A c, d \in Callers : (c # d /\ held[c] # None) => held[c] # held[d]
    /\ \A c \in Callers : held[c] # None => held[c] \notin IdleClients
    /\ \A c \in Callers : held[c] # None => connections[held[c]].connected

\* two callers hold clients at once, one of them a client taken from the idle
\* queue that another caller had returned, after a client has been
\* disconnected
C27_Witness ==
  /\ GetCalled /\ ret.value.why = "reused"
  /\ \A c \in Callers : held[c] # None
  /\ \E i \in DOMAIN connections : ~connections[i].connected

\* C28: every client passed to return_connection ends up in an idle queue of
\* the pool or disconnected, also when close_all_connections ran between its
\* checkout and its return.
C28_ReturnedIsIdleOrClosed ==
  (pc = "pool" /\ ret.fn = "ConnectionPool.return_connection")
  => \/ ret.value.client \in IdleClients
     \/ ~connections[ret.value.client].connected

\* ============================================ database connection manager
\* database/database.py, DatabaseConnectionManager.  self.clients is the
\* registry (key -> client), self.connected_databases the list of names.
NoSchema == ""
ManagerSchemas == {NoSchema, DefaultSchema}

\* key = f"{database_name}_{schema}" if schema else database_name
ManagerKey(database_name, schema) ==
  IF schema # NoSchema THEN database_name \o "_" \o schema ELSE database_name

\* list.remove(x): the first occurrence only
RECURSIVE ListRemove(_, _)
ListRemove(list, x) ==
  IF list = <<>> THEN <<>>
  ELSE IF Head(list) = x THEN Tail(list)
  ELSE <<Head(list)>> \o ListRemove(Tail(list), x)

\* DatabaseConnectionManager.connect_to_database, lines 26-42; client.connect()
\* may raise, and then None is returned with nothing stored
ConnectToDatabase(database_name, schema, connect_ok) ==
  LET key == ManagerKey(database_name, schema)
      client == Len(connections) + 1
  IN  /\ pc = "manager"
      /\ IF connect_ok /\ Len(connections) < MaxClients
         THEN /\ connections' = Append(connections, [key |-> key, connected |-> TRUE])
              /\ clients' = WithItem(clients, key, client)
              /\ connected_databases' = Append(connected_databases, database_name)
              /\ ret' = Called("connect_to_database", Return(client))
         ELSE /\ ret' = Called("connect_to_database", Return(None))
              /\ UNCHANGED <<connections, clients, connected_databases>>
      /\ UNCHANGED <<inputs, batch, pc, pools, connection_info, held, clock>>

\* DatabaseConnectionManager.disconnect_from_database, lines 75-88; when
\* client.disconnect() raises, the registry and the list are left as they are
DisconnectFromDatabase(database_name, schema, disconnect_ok) ==
  LET key == ManagerKey(database_name, schema)
  IN  /\ pc = "manager"
      /\ IF key \in DOMAIN clients /\ disconnect_ok
         THEN /\ connections' = Disconnected(connections, {clients[key]})
              /\ clients' = WithoutItem(clients, key)
              /\ connected_databases' =
                   IF \E i \in DOMAIN connected_databases :
                        connected_databases[i] = database_name
                   THEN ListRemove(connected_databases, database_name)
                   ELSE connected_databases
         ELSE UNCHANGED <<connections, clients, connected_databases>>
      /\ ret' = Called("disconnect_from_database", Return(None))
      /\ UNCHANGED <<inputs, batch, pc, pools, connection_info, held, clock>>

\* DatabaseConnectionManager.disconnect_all, lines 90-102; the clients whose
\* disconnect() raises (raising) stay as they were, the registry is cleared
DisconnectAll(raising) ==
  /\ pc = "manager"
  /\ connections' = Disconnected(connections,
                                 {clients[k] : k \in DOMAIN clients \ raising})
  /\ clients' = EmptyDict
  /\ connected_databases' = <<>>
  /\ ret' = Called("disconnect_all", Return(None))
  /\ UNCHANGED <<inputs, batch, pc, pools, connection_info, held, clock>>

\* DatabaseConnectionManager.is_connected, lines 113-116
IsConnected(database_name, schema) == ManagerKey(database_name, schema) \in DOMAIN clients

\* DatabaseConnectionManager.get_connected_databases, lines 118-120
GetConnectedDatabases == connected_databases

InitManager ==
  /\ columns = {}
  /\ rows = <<>>
  /\ unit = NoneUnit
  /\ hostname = QueryHost
  /\ start_time = NoTime
  /\ end_time = NoTime
  /\ pc = "manager"
  /\ ret = NoCall
  /\ connections = <<>>
  /\ pools = EmptyDict
  /\ connection_info = EmptyDict
  /\ held = EmptyDict
  /\ clock = 0
  /\ clients = EmptyDict
  /\ connected_databases = <<>>
  /\ NoBatch

NextManager ==
  \/ \E database_name \in Databases, schema \in ManagerSchemas, connect_ok \in BOOLEAN :
       ConnectToDatabase(database_name, schema, connect_ok)
  \/ \E database_name \in Databases, schema \in ManagerSchemas, disconnect_ok \in BOOLEAN :
       DisconnectFromDatabase(database_name, schema, disconnect_ok)
  \/ \E raising \in SUBSET DOMAIN clients : DisconnectAll(raising)

SpecManager == InitManager /\ [][NextManager]_vars

\* ------------------------------------------------------------ claim, C29
\* the names get_connected_databases() returns
ListedDatabases == {GetConnectedDatabases[i] : i \in DOMAIN GetConnectedDatabases}

\* a name is listed exactly when some schema of the database has a client
ListMatchesRegistry ==
  \A database_name \in Databases :
    database_name \in ListedDatabases
      <=> \E schema \in ManagerSchemas : IsConnected(database_name, schema)

\* a step that puts another client under a key leaves the earlier client of
\* that key disconnected
ReplacedClientIsDisconnected ==
  \A key \in DOMAIN clients :
    (key \in DOMAIN clients' /\ clients'[key] # clients[key])
      => ~connections'[clients[key]].connected

\* C29: after any sequence of connect_to_database, disconnect_from_database
\* and disconnect_all, get_connected_databases() lists a database exactly when
\* at least one client of it is in the registry, and connecting a key a second
\* time leaves no earlier client of the key connected but unregistered.
C29_ListMatchesRegistry ==
  [](pc = "manager" => ListMatchesRegistry) /\ [][ReplacedClientIsDisconnected]_vars

\* ------------------------------------------------------------ claim, C30
ClassifierFns ==
  {"utils.node_detection.get_node_type_and_query_func",
   "core.power_utils.get_node_type_and_query_func",
   "QueryManager._get_node_type_and_query_func"}

\* where an outcome of a classifier sends the hostname: database, schema and
\* query function, or the rejection
Routing(out) ==
  IF out.kind = "raise" THEN <<"rejected">>
  ELSE <<out.value[3], out.value[4], out.value[2]>>

\* C30: whichever of the three hostname classifiers is called, the hostname
\* is routed to the database, schema and query function (or is rejected as)
\* the other two classifiers route it.
C30_ClassifiersAgree ==
  (pc = "done" /\ ret.fn \in ClassifierFns)
  => /\ Routing(ret) = Routing(Return(GetNodeTypeAndQueryFunc(hostname)))
     /\ Routing(ret) = Routing(CoreGetNodeTypeAndQueryFunc(hostname))
     /\ Routing(ret) = Routing(ManagerGetNodeTypeAndQueryFunc(hostname))

\* ========================================================= batch scripts
\* scripts/calculate_energy_table.py process_table and
\* scripts/query_node_energy.py query_node_energy: one query per item.
MaxBatch == 3

\* a value the 'SystemPowerConsumption (kWh)' column holds before the run
\* when the input file already has the column
Stale == 7

\* query_node_energy, lines 103-110
NodeEnergyMetrics ==
  <<"SystemPowerConsumption", "SystemOutputPower", "TotalCPUPower",
    "TotalStoragePower", "TotalMemoryPower", "TotalFanPower">>

\* a time cell of the input table: text no format parses, or an instant
TimeCells == {Unparseable, 1}

\* parse_time_column, lines 118-160: None for a text that does not parse,
\* otherwise the instant formatted '%Y-%m-%d %H:%M:%S', whole seconds
ParseTimeColumn(cell) ==
  IF cell = Unparseable THEN NoTime
  ELSE (cell \div TicksPerSecond) * TicksPerSecond

\* what the query of one item gives: get_compute_metrics_with_joins,
\* get_pooled_connection or read_sql_query raises (query_ok = FALSE), or the
\* result frame with its columns
BatchSamples ==
  << [hostname |-> QueryHost, timestamp |-> 0, value |-> 2, units |-> NoneUnit],
     [hostname |-> QueryHost, timestamp |-> 2 * TicksPerSecond, value |-> 2,
      units |-> NoneUnit] >>
QueryOutcomes ==
  {[query_ok |-> FALSE, cols |-> QueryColumns, frame |-> <<>>],
   [query_ok |-> TRUE, cols |-> QueryColumns, frame |-> <<>>],
   [query_ok |-> TRUE, cols |-> QueryColumns, frame |-> BatchSamples],
   [query_ok |-> TRUE, cols |-> QueryColumns \ {"value"}, frame |-> BatchSamples]}

\* the rows of the input table
TableRows ==
  {[start_cell |-> s, end_cell |-> e] :
     s \in TimeCells, e \in {Unparseable, 2 * TicksPerSecond + 1}}

\* a per-item function whose except clause lets the exception of the query
\* through
CalculateEnergyForRowUncaught(query, host, start, end) ==
  IF ~query.query_ok THEN Raise({})
  ELSE Return(CalculateEnergyForRow(query.cols, query.frame, host, start, end))

\* calculate_energy_for_row with its query, lines 36-115: an exception of
\* the query is caught by lines 113-115 and gives (0.0, empty frame)
CalculateEnergyForRowOf(query, host, start, end) ==
  IF ~query.query_ok THEN Return(NoData)
  ELSE Return(CalculateEnergyForRow(query.cols, query.frame, host, start, end))

\* query_metric_energy with its query, lines 19-84
QueryMetricEnergyOf(query, host, start, end) ==
  IF ~query.query_ok THEN Return(NoData)
  ELSE Return(QueryMetricEnergy(query.cols, query.frame, host, start, end))

\* pd.read_csv / pd.read_excel gives one more row
ReadTableRow ==
  /\ pc = "input"
  /\ Len(table) < MaxBatch
  /\ \E row \in TableRows : table' = Append(table, row)
  /\ UNCHANGED <<inputs, idx, results, calls, pc, ret, connections, pools,
                 connection_info, held, clock, clients, connected_databases>>

\* process_table, lines 162-206: the energy column is created with 0.0
\* unless the table already has it (has_column)
StartProcessTable(has_column) ==
  /\ pc = "input"
  /\ pc' = "process_table"
  /\ results' = [i \in DOMAIN table |-> IF has_column THEN Stale ELSE 0]
  /\ idx' = 1
  /\ UNCHANGED <<inputs, table, calls, ret, connections, pools, connection_info,
                 held, clock, clients, connected_databases>>

\* process_table, lines 214-240: one pass of `for idx, row in df.iterrows()`,
\* in which the query has the outcome `query`
ProcessTableRow(query) ==
  /\ pc = "process_table"
  /\ idx <= Len(table)
  /\ LET row == table[idx]
         start == ParseTimeColumn(row.start_cell)
         end == ParseTimeColumn(row.end_cell)
         out == CalculateEnergyForRowOf(query, hostname, start, end)
     IN  IF start = NoTime \/ end = NoTime
         THEN /\ idx' = idx + 1
              /\ UNCHANGED <<results, calls, pc, ret>>
         ELSE IF out.kind = "raise"
         THEN /\ calls' = Append(calls, [item |-> idx, query |-> query])
              /\ pc' = "raised"
              /\ ret' = Called("process_table", out)
              /\ UNCHANGED <<idx, results>>
         ELSE /\ calls' = Append(calls, [item |-> idx, query |-> query])
              /\ results' = [results EXCEPT ![idx] = out.value.energy]
              /\ idx' = idx + 1
              /\ UNCHANGED <<pc, ret>>
  /\ UNCHANGED <<inputs, table, connections, pools, connection_info, held, clock,
                 clients, connected_databases>>

\* process_table after the loop: the filled column goes to the output file
FinishProcessTable ==
  /\ pc = "process_table"
  /\ idx > Len(table)
  /\ pc' = "done"
  /\ ret' = Called("process_table", Return(results))
  /\ UNCHANGED <<inputs, batch, connections, pools, connection_info, held, clock,
                 clients, connected_databases>>

\* query_node_energy, lines 86-115: the metrics list, results = {}
StartQueryNodeEnergy ==
  /\ pc = "input"
  /\ table = <<>>
  /\ pc' = "query_node_energy"
  /\ table' = NodeEnergyMetrics
  /\ results' = <<>>
  /\ idx' = 1
  /\ UNCHANGED <<inputs, calls, ret, connections, pools, connection_info,
                 held, clock, clients, connected_databases>>

\* query_node_energy, lines 117-123: one pass of `for metric in metrics`
QueryNodeEnergyMetric(query) ==
  /\ pc = "query_node_energy"
  /\ idx <= Len(table)
  /\ LET out == QueryMetricEnergyOf(query, hostname, start_time, end_time)
     IN  IF out.kind = "raise"
         THEN /\ calls' = Append(calls, [item |-> idx, query |-> query])
              /\ pc' = "raised"
              /\ ret' = Called("query_node_energy", out)
              /\ UNCHANGED <<idx, results>>
         ELSE /\ calls' = Append(calls, [item |-> idx, query |-> query])
              /\ results' = Append(results, out.value.energy)
              /\ idx' = idx + 1
              /\ UNCHANGED <<pc, ret>>
  /\ UNCHANGED <<inputs, table, connections, pools, connection_info, held, clock,
                 clients, connected_databases>>

RECURSIVE SumEnergies(_)
SumEnergies(energies) ==
  IF energies = <<>> THEN 0 ELSE Head(energies) + SumEnergies(Tail(energies))

\* query_node_energy after the loop: the summary of results and total_energy
FinishQueryNodeEnergy ==
  /\ pc = "query_node_energy"
  /\ idx > Len(table)
  /\ pc' = "done"
  /\ ret' = Called("query_node_energy",
                   Return([results |-> results, total_energy |-> SumEnergies(results)]))
  /\ UNCHANGED <<inputs, batch, connections, pools, connection_info, held, clock,
                 clients, connected_databases>>

InitBatch ==
  /\ columns = QueryColumns
  /\ rows = <<>>
  /\ unit = NoneUnit
  /\ hostname = QueryHost
  /\ start_time = 0
  /\ end_time = 2 * TicksPerSecond
  /\ pc = "input"
  /\ ret = NoCall
  /\ NoServices

\* the passes of the two loops and their ends
BatchStep ==
  \/ \E query \in QueryOutcomes : ProcessTableRow(query)
  \/ FinishProcessTable
  \/ \E query \in QueryOutcomes : QueryNodeEnergyMetric(query)
  \/ FinishQueryNodeEnergy

NextBatch ==
  \/ ReadTableRow
  \/ \E has_column \in BOOLEAN : StartProcessTable(has_column)
  \/ StartQueryNodeEnergy
  \/ BatchStep

\* both loops are straight-line code that goes on to the next pass
SpecBatch == InitBatch /\ [][NextBatch]_vars /\ WF_vars(BatchStep)

\* ------------------------------------------------------------ claim, C23
\* a row is handed to calculate_energy_for_row when both of its times parse;
\* a metric always is
Processable(item) ==
  pc = "process_table" \/ ret.fn = "process_table"
    => /\ ParseTimeColumn(item.start_cell) # NoTime
       /\ ParseTimeColumn(item.end_cell) # NoTime

\* the query of an item fails, finds no data, or its result cannot be
\* integrated
ItemFails(query) ==
  \/ ~query.query_ok
  \/ query.frame = <<>>
  \/ MissingColumns(query.cols) # {}

\* the processable items among the first n, in order
ProcessableUpTo(n) == SelectSeq([i \in 1 .. n |-> i], LAMBDA i : Processable(table[i]))

BatchRunning == pc \in {"process_table", "query_node_energy"}

CalledItems == [k \in DOMAIN calls |-> calls[k].item]

EachItemOnceInOrder ==
  /\ BatchRunning => CalledItems = ProcessableUpTo(idx - 1)
  /\ pc = "done" => CalledItems = ProcessableUpTo(Len(table))

FailedItemsAreZero ==
  (BatchRunning \/ pc = "done")
  => \A k \in DOMAIN calls : ItemFails(calls[k].query) => results[calls[k].item] = 0

\* C23: a batch never halts on a bad item: once started, the loop reaches its
\* end; every row whose times parse and every metric is handed to the
\* per-item function exactly once and in order; and an item whose query,
\* disambiguation or integration fails has the energy 0.0 recorded while the
\* later items are still processed.
C23_BatchNeverHalts ==
  /\ [](EachItemOnceInOrder /\ FailedItemsAreZero /\ pc # "raised")
  /\ (BatchRunning ~> pc = "done")

\* a table whose first row fails in the query, over a stale column value,
\* whose second row is skipped and whose third row yields energy
C23_Witness ==
  /\ pc = "done" /\ ret.fn = "process_table"
  /\ CalledItems = <<1, 3>>
  /\ ~calls[1].query.query_ok /\ results[1] = 0
  /\ results[2] = Stale
  /\ results[3] > 0
====
